---- MODULE Spec2Model ----
(***************************************************************************)
(* Voice conversation turn processing of style-shepherd:                   *)
(*   server/src/services/STTService.ts      (STTService.transcribe)        *)
(*   server/src/services/VoiceAssistant.ts  (VoiceAssistant)               *)
(* A voice turn is an async function; every await is one step of the turn. *)
(***************************************************************************)
EXTENDS Integers, Sequences, FiniteSets, TLC

\* ---------------------------------------------------------------- constants
MAX_FILE_SIZE == 25 * 1024 * 1024
MAX_RETRIES == 3
RETRY_DELAY == 1000

\* the placeholder text of the final fallback of STTService.transcribe
FALLBACK_TEXT == <<"[Audio transcription needed - please configure STT service]">>

\* the clause appended to the response after preferences were saved
ACK_CLAUSE == <<"I've saved that preference for you!">>

None == "none"
NoUser == "nouser"

\* an optional value: << >> when absent (undefined / null), <<v>> when present
Absent == << >>
Some(v) == <<v>>
IsSome(o) == o # << >>
Get(o) == o[1]

\* ------------------------------------------------------------------- bounds
\* largest number of failing provider, cache and store operations in a behaviour
MaxFaults == 2

Users == {"u1"}
CallIds == {1, 2, 3}

\* audio buffers: content id and byte length (same id = byte-identical audio)
Audios ==
  { [id |-> "empty", len |-> 0],
    [id |-> "full", len |-> MAX_FILE_SIZE],
    [id |-> "oversize", len |-> MAX_FILE_SIZE + 1] }
\* the buffers handed to voice turns
TurnAudios == {a \in Audios : a.len > 0}

\* utterances are sequences of words
U_FIND == <<"find", "blue", "dresses">>
U_SIZE == <<"I'm", "a", "medium", "in", "Acme">>
Utterances == {U_FIND, U_SIZE}
\* what a transcription provider may return as text: some utterance, or ""
ProviderTexts == Utterances \cup {<< >>}

\* results of the language-understanding provider (llmService, external);
\* confidence in hundredths
NoEntities == [color |-> None, category |-> None, brand |-> None, size |-> None]
IntentResults ==
  { [intent |-> "search_product",
     entities |-> [NoEntities EXCEPT !.color = "blue", !.category = "dress"],
     confidence |-> 90],
    [intent |-> "save_preference", entities |-> NoEntities, confidence |-> 80] }

\* response texts of the generation provider (llmService, external): non-empty
ResponseTexts == {<<"Here are some blue dresses.">>}

\* failure classes of a synthesis failure
TtsFailureClasses == {"transient", "invalid_voice"}

VARIABLES
  env,        \* process environment: API keys, SDK surface, build target
  clock,      \* Date.now()
  turn,       \* per call of processVoiceInput: its position and locals
  cacheConv,  \* vultrValkey  conversation:<userId>
  cachePrefs, \* vultrValkey  voice-preferences:<userId>
  memPrefs,   \* userMemory   <userId>-voice-preferences
  memConv,    \* userMemory   <userId>-conversation (transcript log)
  memPrefLog, \* userMemory   <userId>-preferences-log
  svc,        \* vultrPostgres catalog and orders, recommendation cache, orchestrator
  faults      \* number of operations that have failed so far

vars == <<env, clock, turn, cacheConv, cachePrefs, memPrefs, memConv, memPrefLog, svc, faults>>

\* ------------------------------------------------------------- preferences
\* UserVoicePreferences {}: no key is present
EmptyPrefs ==
  [voicePreference |-> None, sizePreferences |-> Absent, colorPreferences |-> Absent,
   stylePreferences |-> Absent, brandPreferences |-> Absent]

RACHEL_VOICE == "21m00Tcm4TlvDq8ikWAM"
GEORGE_VOICE == "ThT5KcBeYPX3keUQqHPh"

\* String.prototype.toLowerCase / toUpperCase on the words of the vocabulary
Lower(w) ==
  CASE w = "I'm" -> "i'm" [] w = "I" -> "i" [] w = "Acme" -> "acme"
    [] w = "Rachel" -> "rachel" [] OTHER -> w
Upper(w) ==
  CASE w = "medium" -> "MEDIUM" [] w = "small" -> "SMALL" [] w = "large" -> "LARGE"
    [] w = "m" -> "M" [] OTHER -> w
LowerText(t) == [i \in 1..Len(t) |-> Lower(t[i])]

\* \w+ : the words of the vocabulary that hold a character outside [A-Za-z0-9_]
NonWords == {"i'm", "rachel's", "rachel'", "george's", "george'"}
IsWord(w) == w \notin NonWords
\* the longest prefix of a word made of [\w&]
WordPrefix(w) ==
  CASE w = "i'm" -> "i" [] w \in {"rachel's", "rachel'"} -> "rachel"
    [] w \in {"george's", "george'"} -> "george" [] OTHER -> w

\* (?:i'?m|i am|wear|my size is|i wear) at word i: number of words it takes, 0 if none
SizeTriggerLen(w, i) ==
  LET at(k) == IF i + k <= Len(w) THEN w[i + k] ELSE None IN
  IF at(0) \in {"i'm", "im"} THEN 1
  ELSE IF at(0) = "i" /\ at(1) = "am" THEN 2
  ELSE IF at(0) = "wear" THEN 1
  ELSE IF at(0) = "my" /\ at(1) = "size" /\ at(2) = "is" THEN 3
  ELSE IF at(0) = "i" /\ at(1) = "wear" THEN 2
  ELSE 0

\* ([\w\s&]+) from word j on, trimmed: the run of plain words, then the plain
\* prefix of the first word that is not plain
BrandFrom(w, j) ==
  LET stop == IF \E k \in j..Len(w) : ~IsWord(w[k])
              THEN CHOOSE k \in j..Len(w) : ~IsWord(w[k]) /\ \A m \in j..(k - 1) : IsWord(w[m])
              ELSE Len(w) + 1
      run == SubSeq(w, j, stop - 1)
  IN IF stop <= Len(w) THEN Append(run, WordPrefix(w[stop])) ELSE run

\* (\w+)\s+(?:in|for|with)\s+([\w\s&]+) starting at word j
SizeTail(w, j) ==
  IF j + 2 <= Len(w) /\ IsWord(w[j]) /\ w[j + 1] \in {"in", "for", "with"}
  THEN Some([size |-> Upper(w[j]), brand |-> BrandFrom(w, j + 2)])
  ELSE Absent

\* the whole sizePattern tried at word i
SizeMatchAt(w, i) ==
  LET k == SizeTriggerLen(w, i)
      j == i + k
  IN IF k = 0 THEN Absent
     ELSE IF j <= Len(w) /\ w[j] = "a" /\ IsSome(SizeTail(w, j + 1)) THEN SizeTail(w, j + 1)
     ELSE SizeTail(w, j)

\* lowerText.match(sizePattern): the leftmost match
SizeMatch(w) ==
  IF \E i \in 1..Len(w) : IsSome(SizeMatchAt(w, i))
  THEN SizeMatchAt(w, CHOOSE i \in 1..Len(w) :
         IsSome(SizeMatchAt(w, i)) /\ \A m \in 1..(i - 1) : ~IsSome(SizeMatchAt(w, m)))
  ELSE Absent

\* voicePattern.test(lowerText)
VoiceNames ==
  {"male", "female", "man", "woman", "rachel", "george", "adam", "etc"}
VoiceWords ==
  VoiceNames \cup {"rachel'", "george'", "rachels", "georges", "males", "females"}
VoiceMatch(w) ==
  \E i \in 1..Len(w) :
    /\ w[i] \in {"use", "prefer", "want", "like"}
    /\ \/ i + 2 <= Len(w) /\ w[i + 1] \in VoiceWords /\ w[i + 2] = "voice"
       \/ i + 3 <= Len(w) /\ w[i + 1] = "a" /\ w[i + 2] \in VoiceWords /\ w[i + 3] = "voice"

\* lowerText.includes(name) for a voice name
IncludesRachel(w) ==
  \E i \in 1..Len(w) : w[i] \in {"rachel", "rachel's", "rachel'", "rachels"}
IncludesGeorge(w) ==
  \E i \in 1..Len(w) : w[i] \in {"george", "george's", "george'", "georges"}

\* a one-entry brand -> size mapping
OneSize(brand, size) == [b \in {brand} |-> size]

detectPreferencesFromQuery(text, intentAnalysis) ==
  LET w == LowerText(text)
      e == intentAnalysis.entities
      m == SizeMatch(w)
      sizes == IF IsSome(m) THEN Some(OneSize(Get(m).brand, Get(m).size))
               ELSE IF e.size # None /\ e.brand # None
                    THEN Some(OneSize(<<e.brand>>, e.size))
               ELSE Absent
      voice == IF VoiceMatch(w)
               THEN IF IncludesRachel(w) THEN RACHEL_VOICE
                    ELSE IF IncludesGeorge(w) THEN GEORGE_VOICE ELSE None
               ELSE None
      prefs == [voicePreference |-> voice,
                sizePreferences |-> sizes,
                colorPreferences |-> IF e.color # None THEN Some(<<e.color>>) ELSE Absent,
                stylePreferences |-> IF e.category # None THEN Some(<<e.category>>) ELSE Absent,
                brandPreferences |-> IF e.brand # None THEN Some(<<e.brand>>) ELSE Absent]
  IN IF prefs = EmptyPrefs THEN Absent ELSE Some(prefs)

\* [..a, ..b].filter((v, i, arr) => arr.indexOf(v) === i)
Dedup(s) ==
  LET F[i \in 0..Len(s)] ==
        IF i = 0 THEN << >>
        ELSE IF \E j \in 1..(i - 1) : s[j] = s[i] THEN F[i - 1]
        ELSE Append(F[i - 1], s[i])
  IN F[Len(s)]

\* (x || []) and the spread of a possibly absent object
EmptyMap == [k \in {} |-> ""]
OrEmptySeq(x) == IF IsSome(x) THEN Get(x) ELSE << >>
OrEmptyMap(x) == IF IsSome(x) THEN Get(x) ELSE EmptyMap

\* { ...a, ...b } on two brand -> size mappings
\* variant: the existing size wins over the delta's
SpreadMaps_ExistingWins(a, b) ==
  [k \in (DOMAIN a) \cup (DOMAIN b) |-> IF k \in DOMAIN a THEN a[k] ELSE b[k]]
SpreadMaps(a, b) ==
  [k \in (DOMAIN a) \cup (DOMAIN b) |-> IF k \in DOMAIN b THEN b[k] ELSE a[k]]

\* the merge of saveUserPreferences
MergePrefs(existing, preferences) ==
  [voicePreference |-> IF preferences.voicePreference # None
                       THEN preferences.voicePreference ELSE existing.voicePreference,
   sizePreferences |-> Some(SpreadMaps(OrEmptyMap(existing.sizePreferences),
                                       OrEmptyMap(preferences.sizePreferences))),
   colorPreferences |-> Some(Dedup(OrEmptySeq(existing.colorPreferences)
                                   \o OrEmptySeq(preferences.colorPreferences))),
   stylePreferences |-> Some(Dedup(OrEmptySeq(existing.stylePreferences)
                                   \o OrEmptySeq(preferences.stylePreferences))),
   brandPreferences |-> Some(Dedup(OrEmptySeq(existing.brandPreferences)
                                   \o OrEmptySeq(preferences.brandPreferences)))]

\* state.preferences = { ...state.preferences, ...preferencesToSave }
\* (a possibly absent, b present)
SpreadPrefs(a, b) ==
  LET base == IF IsSome(a) THEN Get(a) ELSE EmptyPrefs IN
  [voicePreference |-> IF b.voicePreference # None
                       THEN b.voicePreference ELSE base.voicePreference,
   sizePreferences |-> IF IsSome(b.sizePreferences)
                       THEN b.sizePreferences ELSE base.sizePreferences,
   colorPreferences |-> IF IsSome(b.colorPreferences)
                        THEN b.colorPreferences ELSE base.colorPreferences,
   stylePreferences |-> IF IsSome(b.stylePreferences)
                        THEN b.stylePreferences ELSE base.stylePreferences,
   brandPreferences |-> IF IsSome(b.brandPreferences)
                        THEN b.brandPreferences ELSE base.brandPreferences]

\* ------------------------------------------------------- conversation state
DEFAULT_VOICE_ID == RACHEL_VOICE

\* the ConversationState startConversation builds
StartedState(u, now, preferences) ==
  [conversationId |-> <<"conv", u, now>>, userId |-> u,
   sessionStart |-> now, messageCount |-> 0, timestamp |-> -1,
   lastQuery |-> << >>, lastIntent |-> None, lastEntities |-> NoEntities,
   confidence |-> -1, sttSource |-> None,
   lastMessage |-> << >>, lastResponse |-> << >>,
   voiceSettings |-> Some(IF preferences.voicePreference # None
                          THEN preferences.voicePreference ELSE DEFAULT_VOICE_ID),
   preferences |-> Some(preferences)]

\* the catalog products, the recommendation requests and the services named
\* to the orchestrator
Products == {"sku1", "sku2"}
MaxStock == 2
RequestKeys == {"k1", "k2"}
Services == {"llm", "tts"}

\* the stores behind the commerce services before any call: no cached
\* result, no request in flight, no recorded failure, no order
IdleServices ==
  [stock |-> [s \in Products |-> MaxStock], orders |-> {},
   cache |-> [k \in RequestKeys |-> Absent],
   inflight |-> [k \in RequestKeys |-> 0],
   failures |-> [s \in Services |-> 0]]

\* the locals of one call of processVoiceInput
IdleTurn ==
  [pc |-> "idle", api |-> None, attempt |-> 0, lastError |-> None,
   audio |-> [id |-> None, len |-> 0], userId |-> NoUser,
   text |-> << >>, source |-> None,
   state |-> Absent, intent |-> Absent, prefsToSave |-> Absent,
   existing |-> EmptyPrefs, response |-> << >>, preferencesSaved |-> FALSE,
   audioOut |-> None, result |-> Absent, sleeps |-> << >>,
   \* history of the call, kept for the properties
   calledA |-> FALSE, returnedA |-> FALSE, failedA |-> FALSE,
   calledB |-> FALSE, returnedB |-> FALSE, failedB |-> FALSE, failedAt |-> None,
   ttsFailure |-> None, synth |-> << >>, synthFailed |-> FALSE,
   order |-> 0, stored |-> Absent, created |-> Absent,
   audioPreferred |-> FALSE, changed |-> FALSE, conversationId |-> Absent,
   limit |-> 0,
   \* getRecommendations, confirmPayment, process
   key |-> None, items |-> << >>, checked |-> 0, service |-> None,
   fellBack |-> FALSE, executed |-> FALSE, attachedTo |-> 0]

\* the locals at the start of an attempt (one pass of the for loop)
FreshAttempt(r) ==
  [r EXCEPT !.text = << >>, !.source = None, !.state = Absent, !.intent = Absent,
            !.prefsToSave = Absent, !.existing = EmptyPrefs, !.response = << >>,
            !.preferencesSaved = FALSE, !.audioOut = None,
            !.calledA = FALSE, !.returnedA = FALSE, !.failedA = FALSE,
            !.calledB = FALSE, !.returnedB = FALSE, !.failedB = FALSE,
            !.ttsFailure = None, !.synthFailed = FALSE]

\* the catch block with the backoff wait taken after the last attempt too
CatchAttempt_AlwaysSleep(r, err) ==
  [r EXCEPT !.lastError = err, !.failedAt = r.pc,
            !.pc = IF r.attempt < MAX_RETRIES - 1 THEN "sleep" ELSE "thrown",
            !.sleeps = Append(@, RETRY_DELAY * 2^r.attempt)]

\* catch (error) of the retry loop: remember the error, back off unless this
\* was the last attempt; after the last attempt the loop ends and lastError is thrown
CatchAttempt(r, err) ==
  IF r.attempt < MAX_RETRIES - 1
  THEN [r EXCEPT !.lastError = err, !.failedAt = r.pc, !.pc = "sleep",
                 !.sleeps = Append(@, RETRY_DELAY * 2^r.attempt)]
  ELSE [r EXCEPT !.lastError = err, !.failedAt = r.pc, !.pc = "thrown"]

\* the first use of conversationHistory comes before its const declaration:
\* a build that keeps block scoping throws a ReferenceError there, a build
\* that lowers const to var passes undefined
AfterLoad(r) ==
  IF env.hoisted THEN [r EXCEPT !.pc = "intent"]
  ELSE CatchAttempt(r, "ReferenceError")

\* transcribe returns { text, source }: its promise is fulfilled
TranscribeReturn(r, text, source) ==
  [r EXCEPT !.pc = "sttReturned", !.text = text, !.source = source]

\* transcribe: the final fallback
FallbackResult(r) == TranscribeReturn(r, FALLBACK_TEXT, "fallback")

\* transcribe: the ElevenLabs stage; without the client, or without the
\* speechToText surface of the SDK, no call is made
ElevenLabsStage(r) ==
  IF env.elevenLabsKey /\ env.sttApi
  THEN [r EXCEPT !.pc = "elevenlabs", !.calledB = TRUE]
  ELSE FallbackResult([r EXCEPT !.failedB = env.elevenLabsKey])

\* the size check off by one
TooLarge_OffByOne(len) == len > MAX_FILE_SIZE + 1

\* buffer.length > this.MAX_FILE_SIZE
TooLarge(len) == len > MAX_FILE_SIZE

\* variant: one breaker for all services; after a synthesis failure in any
\* call, transcribe returns its fallback without calling a provider
EnterTranscribe_GlobalBreaker(r) ==
  IF \E q \in CallIds : \E i \in 1..Len(turn[q].synth) : turn[q].synth[i] # "ok"
  THEN FallbackResult(r)
  ELSE IF TooLarge(r.audio.len)
  THEN [r EXCEPT !.pc = "sttRaised"]
  ELSE IF env.openaiKey
  THEN [r EXCEPT !.pc = "whisper", !.calledA = TRUE]
  ELSE ElevenLabsStage(r)

\* transcribe up to its first await
EnterTranscribe(r) ==
  IF TooLarge(r.audio.len)
  THEN [r EXCEPT !.pc = "sttRaised"]
  ELSE IF env.openaiKey
  THEN [r EXCEPT !.pc = "whisper", !.calledA = TRUE]
  ELSE ElevenLabsStage(r)

\* !textQuery || textQuery === '[Audio transcription needed ...]'
Unusable(text) == text = << >> \/ text = FALLBACK_TEXT

\* processVoiceInput once sttService.transcribe has returned a result
AfterTranscribe(r) ==
  IF Unusable(r.text)
  THEN CatchAttempt(r, "Failed to transcribe audio input")
  ELSE IF r.userId # NoUser THEN [r EXCEPT !.pc = "load"]
  ELSE AfterLoad(r)

\* one pass of the for loop up to its first await
BeginAttempt(r) ==
  IF r.userId # NoUser THEN [r EXCEPT !.pc = "prompt"] ELSE EnterTranscribe(r)

\* return { text, audio, intent, entities, preferencesSaved }
ReturnResult(r) ==
  [r EXCEPT !.pc = "returned",
            !.result = Some([text |-> r.response, audio |-> r.audioOut,
                             intent |-> Get(r.intent).intent,
                             entities |-> Get(r.intent).entities,
                             preferencesSaved |-> r.preferencesSaved])]

\* after the synthesis step, writing the state whether or not the call has
\* a userId
AfterSynthesis_AlwaysSave(r) == [r EXCEPT !.pc = "saveState"]
\* processVoiceInput after the synthesis step
AfterSynthesis(r) ==
  IF r.userId # NoUser THEN [r EXCEPT !.pc = "saveState"] ELSE ReturnResult(r)

\* processVoiceInput after the preference step
AfterPreferences(r) == [r EXCEPT !.pc = "tts"]

\* ------------------------------------------------------------------ actions
Set(p, r) == turn' = [turn EXCEPT ![p] = r]
At(p, pc) == p \in env.calls /\ turn[p].pc = pc

\* getUserVoicePreferences when no read fails: cache, then store (filling the
\* cache), then {}; user profiles carry no preference fields
ReadPrefs(u) ==
  IF IsSome(cachePrefs[u]) THEN Get(cachePrefs[u])
  ELSE IF IsSome(memPrefs[u]) THEN Get(memPrefs[u])
  ELSE EmptyPrefs
FillPrefsCache(u) ==
  IF ~IsSome(cachePrefs[u]) /\ IsSome(memPrefs[u])
  THEN [cachePrefs EXCEPT ![u] = memPrefs[u]] ELSE cachePrefs

Frame == UNCHANGED <<env, clock, cacheConv, cachePrefs, memPrefs, memConv, memPrefLog, svc, faults>>
\* a step in which an awaited operation fails
Stores == <<env, clock, cacheConv, cachePrefs, memPrefs, memConv, memPrefLog, svc>>
Fault == faults < MaxFaults /\ faults' = faults + 1 /\ UNCHANGED Stores

\* processVoiceInput(conversationId, audioStream, userId) is called
processVoiceInput(p, a, u) ==
  /\ At(p, "idle") /\ "voice" \in env.apis
  /\ Set(p, BeginAttempt([IdleTurn EXCEPT !.api = "voice", !.audio = a, !.userId = u]))
  /\ Frame

\* sttService.transcribe(audioBuffer) is called on its own
transcribe(p, a) ==
  /\ At(p, "idle") /\ "transcribe" \in env.apis
  /\ Set(p, EnterTranscribe([IdleTurn EXCEPT !.api = "transcribe", !.audio = a]))
  /\ Frame

\* processVoiceInput resumes after await sttService.transcribe(...)
ResumeAfterTranscribe(p) ==
  /\ At(p, "sttReturned") /\ turn[p].api = "voice"
  /\ Set(p, AfterTranscribe(turn[p]))
  /\ Frame
CatchTranscribeError(p) ==
  /\ At(p, "sttRaised") /\ turn[p].api = "voice"
  /\ Set(p, CatchAttempt(turn[p], "Audio file too large"))
  /\ Frame

\* await this.getContextPrompt(userId)
ContextPromptOk(p) ==
  /\ At(p, "prompt")
  /\ Set(p, EnterTranscribe(turn[p]))
  /\ Frame
ContextPromptFail(p) ==
  /\ At(p, "prompt")
  /\ Set(p, CatchAttempt(turn[p], "context prompt failed"))
  /\ Fault

\* the Whisper result is kept but not returned: transcribe goes on to ElevenLabs
WhisperOk_NoReturn(p, t) ==
  /\ At(p, "whisper")
  /\ Set(p, ElevenLabsStage([turn[p] EXCEPT !.returnedA = TRUE, !.text = t,
                                            !.source = "openai"]))
  /\ Frame

\* await this.transcribeWithWhisper(buffer, options)
WhisperOk(p, t) ==
  /\ At(p, "whisper")
  /\ Set(p, TranscribeReturn([turn[p] EXCEPT !.returnedA = TRUE], t, "openai"))
  /\ Frame
WhisperFail(p) ==
  /\ At(p, "whisper")
  /\ Set(p, ElevenLabsStage([turn[p] EXCEPT !.failedA = TRUE]))
  /\ Fault

\* await this.transcribeWithElevenLabs(buffer): a response without text
\* falls through to the throw, which transcribe catches
ElevenLabsOk(p, t) ==
  /\ At(p, "elevenlabs")
  /\ Set(p, IF t # << >>
            THEN TranscribeReturn([turn[p] EXCEPT !.returnedB = TRUE], t, "elevenlabs")
            ELSE FallbackResult([turn[p] EXCEPT !.failedB = TRUE]))
  /\ Frame
\* the ElevenLabs error is not caught by transcribe
ElevenLabsFail_Rethrow(p) ==
  /\ At(p, "elevenlabs")
  /\ Set(p, [turn[p] EXCEPT !.failedB = TRUE, !.pc = "sttRaised"])
  /\ Fault

ElevenLabsFail(p) ==
  /\ At(p, "elevenlabs")
  /\ Set(p, FallbackResult([turn[p] EXCEPT !.failedB = TRUE]))
  /\ Fault

\* await Promise.all([vultrValkey.get(conversation:<userId>), userMemory.get(userId)])
LoadState(p) ==
  /\ At(p, "load")
  /\ Set(p, AfterLoad([turn[p] EXCEPT !.state = cacheConv[turn[p].userId]]))
  /\ Frame
LoadStateFail(p) ==
  /\ At(p, "load")
  /\ Set(p, CatchAttempt(turn[p], "cache or store read failed"))
  /\ Fault

\* await llmService.extractIntentAndEntities(...), then detectPreferencesFromQuery
ExtractIntentOk(p, ia) ==
  /\ At(p, "intent")
  /\ Set(p, [turn[p] EXCEPT !.intent = Some(ia),
                            !.prefsToSave = detectPreferencesFromQuery(turn[p].text, ia),
                            !.pc = IF turn[p].userId # NoUser THEN "history" ELSE "respond"])
  /\ Frame
ExtractIntentFail(p) ==
  /\ At(p, "intent")
  /\ Set(p, CatchAttempt(turn[p], "intent extraction failed"))
  /\ Fault

\* await this.getConversationHistory(userId, 10): a failed read gives [];
\* the history is handed to llmService only
GetHistory(p) ==
  /\ At(p, "history")
  /\ Set(p, [turn[p] EXCEPT !.pc = "respond"])
  /\ Frame

\* await llmService.generateResponse(...)
GenerateResponseOk(p, text) ==
  /\ At(p, "respond")
  /\ LET r == [turn[p] EXCEPT !.response = text] IN
     Set(p, IF IsSome(r.prefsToSave) /\ r.userId # NoUser
            THEN [r EXCEPT !.pc = "prefsRead"] ELSE AfterPreferences(r))
  /\ Frame
GenerateResponseFail(p) ==
  /\ At(p, "respond")
  /\ Set(p, CatchAttempt(turn[p], "response generation failed"))
  /\ Fault

\* getUserVoicePreferences has returned: getUserPreferences hands the value
\* to its caller, saveUserPreferences goes on to merge and write
AfterPrefsRead(r) ==
  CASE r.api = "get" -> [r EXCEPT !.pc = "returned", !.result = Some(r.existing)]
    [] r.api = "start" ->
         \* const conversationId = `conv_${userId}_${Date.now()}`
         [r EXCEPT !.created = Some(<<"conv", r.userId, clock>>),
                   !.pc = IF env.elevenLabsKey THEN "startSettings" ELSE "startState"]
    [] OTHER -> [r EXCEPT !.pc = "prefsStore"]

\* saveUserPreferences: const existing = await this.getUserVoicePreferences(userId);
\* a failed read is caught there and gives {}
PrefsReadOk(p) ==
  /\ At(p, "prefsRead")
  /\ Set(p, AfterPrefsRead([turn[p] EXCEPT !.existing = ReadPrefs(turn[p].userId)]))
  /\ cachePrefs' = FillPrefsCache(turn[p].userId)
  /\ UNCHANGED <<env, clock, cacheConv, memPrefs, memConv, memPrefLog, svc, faults>>
PrefsReadFail(p) ==
  /\ At(p, "prefsRead")
  /\ Set(p, AfterPrefsRead([turn[p] EXCEPT !.existing = EmptyPrefs]))
  /\ Fault

\* the merged preferences saveUserPreferences writes
Updated(r) == MergePrefs(r.existing, Get(r.prefsToSave))

\* await userMemory.set(`${userId}-voice-preferences`, updated)
PrefsStore(p) ==
  /\ At(p, "prefsStore")
  /\ memPrefs' = [memPrefs EXCEPT ![turn[p].userId] = Some(Updated(turn[p]))]
  /\ Set(p, [turn[p] EXCEPT !.pc = "prefsCache",
                            !.changed = @ \/ memPrefs[turn[p].userId] # Some(Updated(turn[p]))])
  /\ UNCHANGED <<env, clock, cacheConv, cachePrefs, memConv, memPrefLog, svc, faults>>

\* await vultrValkey.set(`voice-preferences:${userId}`, updated, 86400)
PrefsCache(p) ==
  /\ At(p, "prefsCache")
  /\ cachePrefs' = [cachePrefs EXCEPT ![turn[p].userId] = Some(Updated(turn[p]))]
  /\ Set(p, [turn[p] EXCEPT !.pc = "prefsLog"])
  /\ UNCHANGED <<env, clock, cacheConv, memPrefs, memConv, memPrefLog, svc, faults>>

\* processVoiceInput after saveUserPreferences returned
PreferencesSaved(r) ==
  LET d == Get(r.prefsToSave) IN
  AfterPreferences(
    [r EXCEPT !.preferencesSaved = TRUE,
              !.state = IF IsSome(r.state)
                        THEN Some([Get(r.state) EXCEPT !.preferences = Some(SpreadPrefs(@, d))])
                        ELSE Absent,
              !.response = IF IsSome(d.sizePreferences) \/ d.voicePreference # None
                           THEN r.response \o ACK_CLAUSE ELSE r.response])

\* saveUserPreferences has returned: to updateUserPreferences, which returns
\* (stored: the preferences held for the user at that moment, kept for the
\* properties), or to processVoiceInput
AfterSave(r) ==
  IF r.api = "update"
  THEN [r EXCEPT !.pc = "returned",
                 !.stored = Some([durable |-> memPrefs[r.userId],
                                  cache |-> cachePrefs[r.userId]])]
  ELSE PreferencesSaved(r)

\* saveUserPreferences has rethrown: updateUserPreferences rejects,
\* processVoiceInput catches the error and goes on
AfterSaveFailed(r) ==
  IF r.api = "update"
  THEN [r EXCEPT !.pc = "thrown", !.lastError = "preference write failed"]
  ELSE AfterPreferences(r)

\* await userMemory.append(`${userId}-preferences-log`, ...)
PrefsLog(p) ==
  /\ At(p, "prefsLog")
  /\ memPrefLog' = [memPrefLog EXCEPT ![turn[p].userId] =
                      Append(@, [preferences |-> Updated(turn[p]), timestamp |-> clock])]
  /\ Set(p, AfterSave(turn[p]))
  /\ UNCHANGED <<env, clock, cacheConv, cachePrefs, memPrefs, memConv, svc, faults>>

\* a write of saveUserPreferences fails: it rethrows, processVoiceInput catches
SavePrefsFail(p) ==
  /\ p \in env.calls /\ turn[p].pc \in {"prefsStore", "prefsCache", "prefsLog"}
  /\ Set(p, AfterSaveFailed(turn[p]))
  /\ Fault

\* generateSpeechWithRetry: await ttsService.textToSpeech(...)
TtsOk(p) ==
  /\ At(p, "tts")
  /\ Set(p, AfterSynthesis([turn[p] EXCEPT !.synth = Append(@, "ok"),
                                           !.audioOut = "ttsService"]))
  /\ Frame
\* ttsService fails: the direct SDK is tried on the first attempt when the
\* client exists, otherwise the error is thrown and processVoiceInput catches it
TtsFail(p, class) ==
  /\ At(p, "tts")
  /\ LET r == [turn[p] EXCEPT !.ttsFailure = class] IN
     Set(p, IF env.elevenLabsKey /\ r.attempt = 0
            THEN [r EXCEPT !.pc = "sdk"]
            ELSE AfterSynthesis([r EXCEPT !.synth = Append(@, class), !.synthFailed = TRUE]))
  /\ Fault

\* await this.client.textToSpeech.convert(...) and the reading of its stream
SdkOk(p) ==
  /\ At(p, "sdk")
  /\ Set(p, AfterSynthesis([turn[p] EXCEPT !.synth = Append(@, "ok"), !.audioOut = "sdk"]))
  /\ Frame
SdkFail(p) ==
  /\ At(p, "sdk")
  /\ Set(p, AfterSynthesis([turn[p] EXCEPT !.synth = Append(@, turn[p].ttsFailure),
                                           !.synthFailed = TRUE]))
  /\ Fault

\* variant: the context of the loaded state is kept, only lastMessage and
\* lastResponse are the turn's
TurnState_StaleContext(r, now) ==
  LET ia == Get(r.intent) IN
  IF IsSome(r.state)
  THEN [Get(r.state) EXCEPT
          !.lastMessage = r.text, !.lastResponse = r.response,
          !.timestamp = now, !.messageCount = @ + 1, !.sttSource = r.source]
  ELSE [conversationId |-> <<"conv", r.userId, now>>, userId |-> r.userId,
        sessionStart |-> -1, messageCount |-> 1, timestamp |-> now,
        lastQuery |-> r.text, lastIntent |-> ia.intent, lastEntities |-> ia.entities,
        confidence |-> ia.confidence, sttSource |-> r.source,
        lastMessage |-> r.text, lastResponse |-> r.response,
        voiceSettings |-> Absent,
        preferences |-> r.prefsToSave]

\* the conversation state processVoiceInput writes at the end of a turn
TurnState(r, now) ==
  LET ia == Get(r.intent) IN
  IF IsSome(r.state)
  THEN [Get(r.state) EXCEPT
          !.lastMessage = r.text, !.lastResponse = r.response,
          !.lastQuery = r.text, !.lastIntent = ia.intent, !.lastEntities = ia.entities,
          !.confidence = ia.confidence,
          !.timestamp = now, !.messageCount = @ + 1, !.sttSource = r.source,
          !.preferences = IF r.preferencesSaved /\ IsSome(r.prefsToSave)
                          THEN Some(SpreadPrefs(@, Get(r.prefsToSave))) ELSE @]
  ELSE [conversationId |-> <<"conv", r.userId, now>>, userId |-> r.userId,
        sessionStart |-> -1, messageCount |-> 1, timestamp |-> now,
        lastQuery |-> r.text, lastIntent |-> ia.intent, lastEntities |-> ia.entities,
        confidence |-> ia.confidence, sttSource |-> r.source,
        lastMessage |-> r.text, lastResponse |-> r.response,
        voiceSettings |-> Absent,
        preferences |-> r.prefsToSave]

\* await vultrValkey.set(`conversation:${userId}`, state, 3600)
SaveState(p) ==
  /\ At(p, "saveState")
  /\ cacheConv' = [cacheConv EXCEPT ![turn[p].userId] = Some(TurnState(turn[p], clock))]
  /\ Set(p, [turn[p] EXCEPT !.pc = "appendUser",
                            !.created = IF IsSome(turn[p].state) THEN @
                                        ELSE Some(TurnState(turn[p], clock).conversationId)])
  /\ UNCHANGED <<env, clock, cachePrefs, memPrefs, memConv, memPrefLog, svc, faults>>
SaveStateFail(p) ==
  /\ At(p, "saveState")
  /\ Set(p, CatchAttempt(turn[p], "cache write failed"))
  /\ Fault

\* the two entries a turn appends to `${userId}-conversation`
UserEntry(r, now) ==
  [type |-> "user", message |-> r.text, intent |-> Get(r.intent).intent,
   entities |-> Get(r.intent).entities, timestamp |-> now,
   sttSource |-> r.source, preferencesSaved |-> FALSE]
AssistantEntry(r, now) ==
  [type |-> "assistant", message |-> r.response, intent |-> None,
   entities |-> NoEntities, timestamp |-> now,
   sttSource |-> None, preferencesSaved |-> r.preferencesSaved]

AppendUser(p) ==
  /\ At(p, "appendUser")
  /\ memConv' = [memConv EXCEPT ![turn[p].userId] = Append(@, UserEntry(turn[p], clock))]
  /\ Set(p, [turn[p] EXCEPT !.pc = "appendAssistant"])
  /\ UNCHANGED <<env, clock, cacheConv, cachePrefs, memPrefs, memPrefLog, svc, faults>>
AppendAssistant(p) ==
  /\ At(p, "appendAssistant")
  /\ memConv' = [memConv EXCEPT ![turn[p].userId] = Append(@, AssistantEntry(turn[p], clock))]
  /\ Set(p, ReturnResult(turn[p]))
  /\ UNCHANGED <<env, clock, cacheConv, cachePrefs, memPrefs, memPrefLog, svc, faults>>
AppendFail(p) ==
  /\ p \in env.calls /\ turn[p].pc \in {"appendUser", "appendAssistant"}
  /\ Set(p, CatchAttempt(turn[p], "store append failed"))
  /\ Fault

\* await this.sleep(...) is over: the next pass of the for loop
Wake(p) ==
  /\ At(p, "sleep")
  /\ Set(p, BeginAttempt(FreshAttempt([turn[p] EXCEPT !.attempt = @ + 1])))
  /\ Frame

\* ------------------------------------------------------------ specification
\* The environment of the process: which API keys are set, whether the
\* ElevenLabs SDK has a speechToText surface, how the build treats the read of
\* a const before its declaration, and which entry points and calls are used.
Envs(apis, calls) ==
  { e \in [openaiKey : BOOLEAN, elevenLabsKey : BOOLEAN, sttApi : BOOLEAN,
           hoisted : BOOLEAN, apis : {apis}, calls : {calls}] :
      e.sttApi => e.elevenLabsKey }

InitStores ==
  /\ clock = 0
  /\ faults = 0
  /\ turn = [p \in CallIds |-> IdleTurn]
  /\ cachePrefs = [u \in Users |-> Absent]
  /\ memPrefs = [u \in Users |-> Absent]
  /\ memConv = [u \in Users |-> << >>]
  /\ memPrefLog = [u \in Users |-> << >>]
  /\ svc = IdleServices

\* the cache holds no conversation, or one that startConversation created
InitConversations ==
  cacheConv \in [Users -> {Absent} \cup {Some(StartedState(u, 0, EmptyPrefs)) : u \in Users}]

\* sttService.transcribe: the provider calls
TranscribeOk(p) ==
  \/ \E t \in ProviderTexts : WhisperOk(p, t)
  \/ \E t \in ProviderTexts : ElevenLabsOk(p, t)
TranscribeFault(p) == WhisperFail(p) \/ ElevenLabsFail(p)

\* processVoiceInput: the steps in which the awaited operation succeeds
TurnStepsOk(p) ==
  \/ ContextPromptOk(p)
  \/ TranscribeOk(p)
  \/ ResumeAfterTranscribe(p) \/ CatchTranscribeError(p)
  \/ LoadState(p)
  \/ \E ia \in IntentResults : ExtractIntentOk(p, ia)
  \/ GetHistory(p)
  \/ \E t \in ResponseTexts : GenerateResponseOk(p, t)
  \/ PrefsReadOk(p) \/ PrefsStore(p) \/ PrefsCache(p) \/ PrefsLog(p)
  \/ TtsOk(p)
  \/ SaveState(p) \/ AppendUser(p) \/ AppendAssistant(p)
  \/ Wake(p)
TurnOk(p) ==
  \/ \E a \in TurnAudios, u \in Users \cup {NoUser} : processVoiceInput(p, a, u)
  \/ TurnStepsOk(p)

\* generateSpeechWithRetry: the SDK call after a failed ttsService call
TurnRecover(p) == SdkOk(p)

\* processVoiceInput: the steps in which the awaited operation fails
TurnFault(p) ==
  \/ ContextPromptFail(p)
  \/ TranscribeFault(p)
  \/ LoadStateFail(p) \/ ExtractIntentFail(p) \/ GenerateResponseFail(p)
  \/ PrefsReadFail(p) \/ SavePrefsFail(p)
  \/ \E c \in TtsFailureClasses : TtsFail(p, c)
  \/ SdkFail(p)
  \/ SaveStateFail(p) \/ AppendFail(p)

\* one voice turn, with at most MaxFaults failing operations
Init ==
  /\ env \in {e \in Envs({"voice"}, {1}) : e.sttApi = e.elevenLabsKey}
  /\ InitStores /\ InitConversations
Next == \E p \in CallIds : TurnOk(p) \/ TurnFault(p) \/ TurnRecover(p)
Spec == Init /\ [][Next]_vars

\* calls of sttService.transcribe on its own
InitStt ==
  /\ env \in Envs({"transcribe"}, {1}) /\ InitStores
  /\ cacheConv = [u \in Users |-> Absent]
NextStt ==
  \E p \in CallIds :
    (\E a \in Audios : transcribe(p, a)) \/ TranscribeOk(p) \/ TranscribeFault(p)
SpecStt == InitStt /\ [][NextStt]_vars

\* two voice turns side by side, every awaited operation succeeding
InitConc ==
  /\ env \in {e \in Envs({"voice"}, {1, 2}) : e.sttApi = e.elevenLabsKey}
  /\ InitStores
  /\ cacheConv = [u \in Users |-> Absent]
NextConc == \E p \in CallIds : TurnOk(p)
SpecConc == InitConc /\ [][NextConc]_vars

\* ------------------------------------------------- transcription resolver
\* every configured transcription provider has failed in this call
AllProvidersFailed(r) ==
  (env.openaiKey => r.failedA) /\ (env.elevenLabsKey => r.failedB)

\* C3: transcribe tries Whisper (A) before ElevenLabs (B): B is called only
\* after the call to A failed or when A is not configured, B is never called
\* once A has returned, and a returned text carries the tag of the provider
\* that produced it.
C3_ProviderOrder ==
  \A p \in CallIds :
    LET r == turn[p] IN
    /\ r.calledB => (r.failedA \/ ~env.openaiKey)
    /\ r.calledB /\ env.openaiKey => r.calledA
    /\ ~(r.returnedA /\ r.calledB)
    /\ r.pc = "sttReturned" =>
         /\ r.returnedA <=> r.source = "openai"
         /\ r.returnedB <=> r.source = "elevenlabs"

\* C3 witness: A failed, B was called and produced the returned text
C3_Witness ==
  \E p \in CallIds :
    /\ turn[p].pc = "sttReturned" /\ turn[p].failedA /\ turn[p].returnedB
    /\ turn[p].source = "elevenlabs" /\ turn[p].text = U_FIND

\* C4: for a buffer within the size limit transcribe never raises, and when
\* every configured provider has failed, or none is configured, it returns
\* the placeholder text with source = 'fallback'.
C4_NeverRaises ==
  \A p \in CallIds :
    LET r == turn[p] IN
    (r.api = "transcribe" /\ r.audio.len <= MAX_FILE_SIZE) =>
      /\ r.pc # "sttRaised"
      /\ AllProvidersFailed(r) =>
           r.pc = "sttReturned" /\ r.text = FALLBACK_TEXT /\ r.source = "fallback"

\* C4 witness: both providers are configured, both failed, the sentinel is returned
C4_Witness ==
  \E p \in CallIds :
    /\ turn[p].api = "transcribe" /\ turn[p].failedA /\ turn[p].failedB
    /\ turn[p].calledB /\ turn[p].audio.len = MAX_FILE_SIZE
    /\ turn[p].pc = "sttReturned" /\ turn[p].source = "fallback"

\* C8 (as claimed): an empty buffer is rejected with an error before any
\* transcription provider is called.
C8_EmptyRejected ==
  \A p \in CallIds :
    LET r == turn[p] IN
    (r.api = "transcribe" /\ r.audio.len = 0) =>
      r.pc = "sttRaised" /\ ~r.calledA /\ ~r.calledB

\* C9: for a buffer larger than MAX_FILE_SIZE transcribe raises and calls
\* neither Whisper nor ElevenLabs.
C9_OversizeRejected ==
  \A p \in CallIds :
    LET r == turn[p] IN
    (r.api = "transcribe" /\ r.audio.len > MAX_FILE_SIZE) =>
      r.pc = "sttRaised" /\ ~r.calledA /\ ~r.calledB

\* C9 witness: both providers are configured and the oversize call has raised
C9_Witness ==
  \E p \in CallIds :
    /\ env.openaiKey /\ env.elevenLabsKey /\ env.sttApi
    /\ turn[p].api = "transcribe" /\ turn[p].audio.len = MAX_FILE_SIZE + 1
    /\ turn[p].pc = "sttRaised"

\* ------------------------------------------------------------ voice turns
\* the errors an attempt can end with, by the place where it stopped
ErrorsAt(pc) ==
  CASE pc = "prompt" -> {"context prompt failed"}
    [] pc = "sttRaised" -> {"Audio file too large"}
    [] pc = "sttReturned" -> {"Failed to transcribe audio input", "ReferenceError"}
    [] pc = "load" -> {"cache or store read failed", "ReferenceError"}
    [] pc = "intent" -> {"intent extraction failed"}
    [] pc = "respond" -> {"response generation failed"}
    [] pc = "saveState" -> {"cache write failed"}
    [] pc \in {"appendUser", "appendAssistant"} -> {"store append failed"}
    [] OTHER -> {}

\* the places of a turn, in program order
Places ==
  <<"idle", "prompt", "whisper", "elevenlabs", "sttReturned", "sttRaised", "load",
    "intent", "history", "respond", "prefsRead", "prefsStore", "prefsCache",
    "prefsLog", "tts", "sdk", "saveState", "appendUser", "appendAssistant", "sleep">>
Place(pc) == CHOOSE i \in 1..Len(Places) : Places[i] = pc
\* how far a call has come: finished calls rank highest
Rank(r) ==
  IF r.pc \in {"returned", "thrown"} THEN MAX_RETRIES * (Len(Places) + 1)
  ELSE r.attempt * (Len(Places) + 1) + Place(r.pc)

C6_Shape(r) ==
  /\ r.attempt \in 0..(MAX_RETRIES - 1)
  /\ Len(r.sleeps) = (IF r.pc = "sleep" THEN r.attempt + 1 ELSE r.attempt)
  /\ \A i \in 1..Len(r.sleeps) : r.sleeps[i] = RETRY_DELAY * 2^(i - 1)
  /\ r.pc = "thrown" =>
       r.attempt = MAX_RETRIES - 1 /\ r.lastError \in ErrorsAt(r.failedAt)
  /\ r.pc = "returned" =>
       /\ IsSome(r.result) /\ Get(r.result).text = r.response
       /\ IsSome(r.intent) /\ ~Unusable(r.text)

C6_Progress ==
  \A p \in CallIds : turn'[p] # turn[p] => Rank(turn'[p]) > Rank(turn[p])

\* C6: processVoiceInput ends after at most MAX_RETRIES attempts: every step
\* moves the call forward through a bounded ranking, the waits are RETRY_DELAY * 2^attempt between
\* consecutive attempts and none after the last, the call returns from the
\* first attempt that succeeds (every earlier attempt failed and was waited
\* for) or throws the error of the last attempt.
C6_BoundedRetries ==
  [](\A p \in CallIds : C6_Shape(turn[p])) /\ [][C6_Progress]_vars

\* C6 witness: two attempts failed and were waited for, the third returned
C6_Witness ==
  \E p \in CallIds :
    /\ turn[p].pc = "returned" /\ turn[p].attempt = MAX_RETRIES - 1
    /\ turn[p].sleeps = <<1000, 2000>>

\* the user has cached conversation state or a transcript
HasContext(u) ==
  u # NoUser /\ (IsSome(cacheConv[u]) \/ memConv[u] # << >>)

\* C1 (as claimed): once every synthesis stage has failed in an attempt that
\* had usable text, an intent and a response, the call returns a result with
\* non-empty text and no audio, and throws nothing.
C1_SynthesisNotFatal ==
  \A p \in CallIds :
    LET r == turn[p] IN
    /\ r.pc = "thrown" => ~r.synthFailed
    /\ (r.pc = "returned" /\ r.synthFailed) =>
         Get(r.result).text # << >> /\ Get(r.result).audio = None

\* C5 (as claimed): processVoiceInput throws only if the transcription gave
\* no usable text and the user has neither cached state nor history.
C5_ThrowsOnlyWithoutTextAndContext ==
  \A p \in CallIds :
    LET r == turn[p] IN
    r.pc = "thrown" => (Unusable(r.text) /\ ~HasContext(r.userId))

\* C7 (as claimed): a turn whose audio is over the size limit is attempted
\* once: no retry and no backoff wait.
C7_ValidationNotRetried ==
  \A p \in CallIds :
    LET r == turn[p] IN
    (r.api = "voice" /\ r.audio.len > MAX_FILE_SIZE) =>
      r.attempt = 0 /\ r.sleeps = << >>

\* C10 (as claimed): after a non-transient synthesis failure synthesis is not
\* attempted again in the turn, and a turn gives up on audio after a transient
\* failure only when the bound of MAX_RETRIES synthesis attempts is used up.
C10_SynthesisRetryPolicy ==
  \A p \in CallIds :
    LET r == turn[p] IN
    /\ \A i \in 1..(Len(r.synth) - 1) : r.synth[i] # "invalid_voice"
    /\ (r.pc = "returned" /\ r.synthFailed /\ r.ttsFailure = "transient") =>
         Len(r.synth) = MAX_RETRIES

\* ------------------------------------------------------------ concurrency
\* an upstream transcription call of this turn is in flight
InFlight(r) == r.pc \in {"whisper", "elevenlabs"}

\* C2 (as claimed): two turns with byte-identical audio for the same user
\* never have two upstream transcription calls in flight at once.
C2_OneUpstreamCall ==
  \A p, q \in CallIds :
    (/\ p # q /\ turn[p].userId # NoUser /\ turn[p].userId = turn[q].userId
     /\ turn[p].audio.id = turn[q].audio.id)
      => ~(InFlight(turn[p]) /\ InFlight(turn[q]))

\* ---------------------------------------------------- rule-based extractor
\* Texts handed to the rule-based functions are sequences of characters.
UpperLetters ==
  <<"A", "B", "C", "D", "E", "F", "G", "H", "I", "J", "K", "L", "M",
    "N", "O", "P", "Q", "R", "S", "T", "U", "V", "W", "X", "Y", "Z">>
LowerLetters ==
  <<"a", "b", "c", "d", "e", "f", "g", "h", "i", "j", "k", "l", "m",
    "n", "o", "p", "q", "r", "s", "t", "u", "v", "w", "x", "y", "z">>
Digits == <<"0", "1", "2", "3", "4", "5", "6", "7", "8", "9">>
Range(s) == {s[i] : i \in 1..Len(s)}

\* String.prototype.toLowerCase, character by character
LowerChar(c) ==
  IF c \in Range(UpperLetters)
  THEN LowerLetters[CHOOSE i \in 1..Len(UpperLetters) : UpperLetters[i] = c]
  ELSE c
ToLowerCase(s) == [i \in 1..Len(s) |-> LowerChar(s[i])]

\* the needle n occurs in s at position i
OccursAt(s, n, i) == i + Len(n) - 1 <= Len(s) /\ SubSeq(s, i, i + Len(n) - 1) = n
\* String.prototype.includes
Includes(s, n) == \E i \in 1..Len(s) : OccursAt(s, n, i)

\* \w of a regular expression
IsWordChar(c) == c \in Range(UpperLetters) \cup Range(LowerLetters) \cup Range(Digits) \cup {"_"}
\* \bn\b at position i, for a needle that starts and ends with a word character
WordAt(s, n, i) ==
  /\ OccursAt(s, n, i)
  /\ i = 1 \/ ~IsWordChar(s[i - 1])
  /\ i + Len(n) - 1 = Len(s) \/ ~IsWordChar(s[i + Len(n)])
\* s.match(/\b(k1|k2|...)\b/i) for the keywords ks
MatchesKeyword(s, ks) == \E n \in ks : \E i \in 1..Len(s) : WordAt(s, n, i)

\* the closed list of intents
INTENTS ==
  <<"search_product", "get_recommendations", "ask_about_size", "check_availability",
    "add_to_cart", "get_style_advice", "return_product", "track_order",
    "save_preference", "general_question">>

\* the vocabularies of the extractor, in the order of the source
COLORS ==
  << [name |-> "red", chars |-> <<"r", "e", "d">>], [name |-> "blue", chars |-> <<"b", "l", "u", "e">>], [name |-> "green", chars |-> <<"g", "r", "e", "e", "n">>],
     [name |-> "black", chars |-> <<"b", "l", "a", "c", "k">>], [name |-> "white", chars |-> <<"w", "h", "i", "t", "e">>], [name |-> "yellow", chars |-> <<"y", "e", "l", "l", "o", "w">>],
     [name |-> "pink", chars |-> <<"p", "i", "n", "k">>], [name |-> "purple", chars |-> <<"p", "u", "r", "p", "l", "e">>], [name |-> "orange", chars |-> <<"o", "r", "a", "n", "g", "e">>],
     [name |-> "gray", chars |-> <<"g", "r", "a", "y">>], [name |-> "grey", chars |-> <<"g", "r", "e", "y">>], [name |-> "navy", chars |-> <<"n", "a", "v", "y">>],
     [name |-> "beige", chars |-> <<"b", "e", "i", "g", "e">>], [name |-> "brown", chars |-> <<"b", "r", "o", "w", "n">>] >>
CATEGORIES ==
  << [name |-> "dress", chars |-> <<"d", "r", "e", "s", "s">>], [name |-> "shirt", chars |-> <<"s", "h", "i", "r", "t">>], [name |-> "pants", chars |-> <<"p", "a", "n", "t", "s">>],
     [name |-> "jeans", chars |-> <<"j", "e", "a", "n", "s">>], [name |-> "jacket", chars |-> <<"j", "a", "c", "k", "e", "t">>], [name |-> "coat", chars |-> <<"c", "o", "a", "t">>],
     [name |-> "shoes", chars |-> <<"s", "h", "o", "e", "s">>], [name |-> "boots", chars |-> <<"b", "o", "o", "t", "s">>], [name |-> "sneakers", chars |-> <<"s", "n", "e", "a", "k", "e", "r", "s">>],
     [name |-> "heels", chars |-> <<"h", "e", "e", "l", "s">>], [name |-> "skirt", chars |-> <<"s", "k", "i", "r", "t">>], [name |-> "top", chars |-> <<"t", "o", "p">>],
     [name |-> "blouse", chars |-> <<"b", "l", "o", "u", "s", "e">>] >>
OCCASIONS ==
  << [name |-> "wedding", chars |-> <<"w", "e", "d", "d", "i", "n", "g">>], [name |-> "party", chars |-> <<"p", "a", "r", "t", "y">>], [name |-> "casual", chars |-> <<"c", "a", "s", "u", "a", "l">>],
     [name |-> "formal", chars |-> <<"f", "o", "r", "m", "a", "l">>], [name |-> "business", chars |-> <<"b", "u", "s", "i", "n", "e", "s", "s">>], [name |-> "date", chars |-> <<"d", "a", "t", "e">>],
     [name |-> "work", chars |-> <<"w", "o", "r", "k">>], [name |-> "weekend", chars |-> <<"w", "e", "e", "k", "e", "n", "d">>], [name |-> "vacation", chars |-> <<"v", "a", "c", "a", "t", "i", "o", "n">>] >>
SIZES ==
  << [name |-> "xs", chars |-> <<"x", "s">>], [name |-> "small", chars |-> <<"s", "m", "a", "l", "l">>], [name |-> "s", chars |-> <<"s">>],
     [name |-> "medium", chars |-> <<"m", "e", "d", "i", "u", "m">>], [name |-> "m", chars |-> <<"m">>], [name |-> "large", chars |-> <<"l", "a", "r", "g", "e">>],
     [name |-> "l", chars |-> <<"l">>], [name |-> "xl", chars |-> <<"x", "l">>], [name |-> "xxl", chars |-> <<"x", "x", "l">>] >>
BRANDS ==
  << [name |-> "nike", chars |-> <<"n", "i", "k", "e">>], [name |-> "adidas", chars |-> <<"a", "d", "i", "d", "a", "s">>],
     [name |-> "zara", chars |-> <<"z", "a", "r", "a">>], [name |-> "h&m", chars |-> <<"h", "&", "m">>],
     [name |-> "gucci", chars |-> <<"g", "u", "c", "c", "i">>], [name |-> "prada", chars |-> <<"p", "r", "a", "d", "a">>],
     [name |-> "versace", chars |-> <<"v", "e", "r", "s", "a", "c", "e">>], [name |-> "calvin klein", chars |-> <<"c", "a", "l", "v", "i", "n", " ", "k", "l", "e", "i", "n">>],
     [name |-> "tommy hilfiger", chars |-> <<"t", "o", "m", "m", "y", " ", "h", "i", "l", "f", "i", "g", "e", "r">>], [name |-> "levi's", chars |-> <<"l", "e", "v", "i", "'", "s">>],
     [name |-> "levis", chars |-> <<"l", "e", "v", "i", "s">>] >>

\* the keyword alternatives of the intent patterns
KW_PREFERENCE ==
  { <<"r", "e", "m", "e", "m", "b", "e", "r">>,
    <<"s", "a", "v", "e">>,
    <<"s", "t", "o", "r", "e">>,
    <<"p", "r", "e", "f", "e", "r">>,
    <<"m", "y", " ", "p", "r", "e", "f", "e", "r", "e", "n", "c", "e">>,
    <<"i", " ", "l", "i", "k", "e">>,
    <<"i", " ", "w", "e", "a", "r">> }
KW_SEARCH ==
  { <<"f", "i", "n", "d">>,
    <<"s", "e", "a", "r", "c", "h">>,
    <<"s", "h", "o", "w">>,
    <<"g", "e", "t">>,
    <<"l", "o", "o", "k", "i", "n", "g", " ", "f", "o", "r">> }
KW_RECOMMEND ==
  { <<"r", "e", "c", "o", "m", "m", "e", "n", "d">>,
    <<"s", "u", "g", "g", "e", "s", "t">>,
    <<"w", "h", "a", "t", " ", "s", "h", "o", "u", "l", "d">>,
    <<"a", "d", "v", "i", "c", "e">> }
KW_SIZE ==
  { <<"s", "i", "z", "e">>,
    <<"f", "i", "t">>,
    <<"m", "e", "a", "s", "u", "r", "e", "m", "e", "n", "t">>,
    <<"s", "m", "a", "l", "l">>,
    <<"m", "e", "d", "i", "u", "m">>,
    <<"l", "a", "r", "g", "e">> }
KW_CART ==
  { <<"a", "d", "d">>,
    <<"c", "a", "r", "t">>,
    <<"b", "u", "y">>,
    <<"p", "u", "r", "c", "h", "a", "s", "e">> }
KW_RETURN ==
  { <<"r", "e", "t", "u", "r", "n">>,
    <<"r", "e", "f", "u", "n", "d">>,
    <<"e", "x", "c", "h", "a", "n", "g", "e">> }
KW_TRACK ==
  { <<"o", "r", "d", "e", "r">>,
    <<"t", "r", "a", "c", "k">>,
    <<"s", "h", "i", "p", "p", "i", "n", "g">>,
    <<"d", "e", "l", "i", "v", "e", "r", "y">> }

\* for (const x of list) if (lowerText.includes(x)) { ...; break }
FirstIncluded(s, list) ==
  IF \E i \in 1..Len(list) : Includes(s, list[i].chars)
  THEN list[CHOOSE i \in 1..Len(list) :
              /\ Includes(s, list[i].chars)
              /\ \A j \in 1..(i - 1) : ~Includes(s, list[j].chars)].name
  ELSE None

\* parseInt of a run of digits
ParseInt(d) ==
  LET val(c) == (CHOOSE i \in 1..Len(Digits) : Digits[i] = c) - 1
      F[i \in 0..Len(d)] == IF i = 0 THEN 0 ELSE 10 * F[i - 1] + val(d[i])
  IN F[Len(d)]
IsDigit(s, i) == i \in 1..Len(s) /\ s[i] \in Range(Digits)
\* the greedy run \d+ that starts at position i
DigitRun(s, i) ==
  SubSeq(s, i, CHOOSE j \in i..Len(s) :
                 (\A k \in i..j : IsDigit(s, k)) /\ ~IsDigit(s, j + 1))
\* \s* from position i on: the first position that holds no blank
SkipBlanks(s, i) ==
  CHOOSE j \in i..(Len(s) + 1) :
    (\A k \in i..(j - 1) : s[k] = " ") /\ (j = Len(s) + 1 \/ s[j] # " ")
\* lowerText.match(/\$?(\d+)(?:\s*-\s*\$?(\d+))?/) and the priceRange built from it
PriceRange(s) ==
  IF ~\E i \in 1..Len(s) : IsDigit(s, i) THEN Absent
  ELSE
    LET i == CHOOSE k \in 1..Len(s) : IsDigit(s, k) /\ \A m \in 1..(k - 1) : ~IsDigit(s, m)
        lo == DigitRun(s, i)
        d == SkipBlanks(s, i + Len(lo))
        a == IF d <= Len(s) /\ s[d] = "-" THEN SkipBlanks(s, d + 1) ELSE 0
        b == IF a # 0 /\ a <= Len(s) /\ s[a] = "$" THEN a + 1 ELSE a
    IN Some([min |-> ParseInt(lo),
             max |-> IF b # 0 /\ IsDigit(s, b) THEN Some(ParseInt(DigitRun(s, b))) ELSE Absent])

\* size.toUpperCase() on the entries of SIZES
UpperSize(size) ==
  CASE size = "xs" -> "XS" [] size = "small" -> "SMALL" [] size = "s" -> "S"
    [] size = "medium" -> "MEDIUM" [] size = "m" -> "M" [] size = "large" -> "LARGE"
    [] size = "l" -> "L" [] size = "xl" -> "XL" [] size = "xxl" -> "XXL"

\* confidence in hundredths
Min(a, b) == IF a < b THEN a ELSE b
Bonus(x, n) == IF x # None THEN n ELSE 0

\* the if / else-if chain without the initial value of detectedIntent
DetectIntent_NoDefault(s) ==
  IF MatchesKeyword(s, KW_PREFERENCE) THEN <<"save_preference", 85>>
  ELSE IF MatchesKeyword(s, KW_SEARCH) THEN <<"search_product", 80>>
  ELSE IF MatchesKeyword(s, KW_RECOMMEND) THEN <<"get_recommendations", 85>>
  ELSE IF MatchesKeyword(s, KW_SIZE) THEN <<"ask_about_size", 75>>
  ELSE IF MatchesKeyword(s, KW_CART) THEN <<"add_to_cart", 80>>
  ELSE IF MatchesKeyword(s, KW_RETURN) THEN <<"return_product", 90>>
  ELSE IF MatchesKeyword(s, KW_TRACK) THEN <<"track_order", 85>>
  ELSE <<"undefined", 50>>

\* detectedIntent and the base confidence: 'general_question' and 0.5 unless
\* a pattern of the if / else-if chain matches
DetectIntent(s) ==
  IF MatchesKeyword(s, KW_PREFERENCE) THEN <<"save_preference", 85>>
  ELSE IF MatchesKeyword(s, KW_SEARCH) THEN <<"search_product", 80>>
  ELSE IF MatchesKeyword(s, KW_RECOMMEND) THEN <<"get_recommendations", 85>>
  ELSE IF MatchesKeyword(s, KW_SIZE) THEN <<"ask_about_size", 75>>
  ELSE IF MatchesKeyword(s, KW_CART) THEN <<"add_to_cart", 80>>
  ELSE IF MatchesKeyword(s, KW_RETURN) THEN <<"return_product", 90>>
  ELSE IF MatchesKeyword(s, KW_TRACK) THEN <<"track_order", 85>>
  ELSE <<"general_question", 50>>

\* VoiceAssistant.extractIntentAndEntities (the rule-based extractor)
extractIntentAndEntities(text) ==
  LET s == ToLowerCase(text)
      hit == DetectIntent(s)
      color == FirstIncluded(s, COLORS)
      category == FirstIncluded(s, CATEGORIES)
      occasion == FirstIncluded(s, OCCASIONS)
      size == FirstIncluded(s, SIZES)
      brand == FirstIncluded(s, BRANDS)
      price == PriceRange(s)
  IN [intent |-> hit[1],
      entities |-> [color |-> color, category |-> category, occasion |-> occasion,
                    size |-> IF size # None THEN UpperSize(size) ELSE None,
                    brand |-> brand, priceRange |-> price],
      confidence |-> Min(95, hit[2] + Bonus(color, 10) + Bonus(category, 10)
                               + Bonus(occasion, 10) + Bonus(size, 5) + Bonus(brand, 10)
                               + (IF IsSome(price) THEN 5 ELSE 0))]

\* texts handed to the extractor
\* ""
T_EMPTY == <<>>
\* "find blue dresses"
T_FIND == <<"f", "i", "n", "d", " ", "b", "l", "u", "e", " ", "d", "r", "e", "s", "s", "e", "s">>
\* "zq#!"
T_GARBLED == <<"z", "q", "#", "!">>
\* "find the black boots I ordered"
T_ORDERED == <<"f", "i", "n", "d", " ", "t", "h", "e", " ", "b", "l", "a", "c", "k", " ", "b", "o", "o", "t", "s", " ", "I", " ", "o", "r", "d", "e", "r", "e", "d">>
\* "I prefer to find red shoes"
T_PREFER == <<"I", " ", "p", "r", "e", "f", "e", "r", " ", "t", "o", " ", "f", "i", "n", "d", " ", "r", "e", "d", " ", "s", "h", "o", "e", "s">>
\* "recommend a jacket for a wedding"
T_RECOMMEND == <<"r", "e", "c", "o", "m", "m", "e", "n", "d", " ", "a", " ", "j", "a", "c", "k", "e", "t", " ", "f", "o", "r", " ", "a", " ", "w", "e", "d", "d", "i", "n", "g">>
\* "I'm a medium in Acme"
T_MEDIUM == <<"I", "'", "m", " ", "a", " ", "m", "e", "d", "i", "u", "m", " ", "i", "n", " ", "A", "c", "m", "e">>
\* "buy zara jeans"
T_BUY == <<"b", "u", "y", " ", "z", "a", "r", "a", " ", "j", "e", "a", "n", "s">>
\* "refund"
T_REFUND == <<"r", "e", "f", "u", "n", "d">>
\* "track it"
T_TRACK == <<"t", "r", "a", "c", "k", " ", "i", "t">>
\* "SHOW coats $50 - $120"
T_PRICE == <<"S", "H", "O", "W", " ", "c", "o", "a", "t", "s", " ", "$", "5", "0", " ", "-", " ", "$", "1", "2", "0">>
\* "hello"
T_HELLO == <<"h", "e", "l", "l", "o">>
NluTexts ==
  { T_EMPTY, T_FIND, T_GARBLED, T_ORDERED, T_PREFER, T_RECOMMEND,
    T_MEDIUM, T_BUY, T_REFUND, T_TRACK, T_PRICE, T_HELLO }

\* extractIntentAndEntities(text) is called and returns
ExtractRuleBased(p, text) ==
  /\ At(p, "idle") /\ "nlu" \in env.apis
  /\ Set(p, [IdleTurn EXCEPT !.api = "extract", !.text = text, !.pc = "returned",
                             !.result = Some(extractIntentAndEntities(text))])
  /\ Frame

\* ------------------------------------------------------ template responses
\* array.join(sep): the elements with the separator between them
JoinWith(list, sep) ==
  LET F[i \in 0..Len(list)] ==
        IF i = 0 THEN << >>
        ELSE IF i = 1 THEN <<list[1]>>
        ELSE F[i - 1] \o <<sep, list[i]>>
  IN F[Len(list)]

\* const userName = userProfile?.name || userProfile?.firstName || 'there'
UserName(userProfile) ==
  IF IsSome(userProfile) /\ Get(userProfile).name # None THEN Get(userProfile).name
  ELSE IF IsSome(userProfile) /\ Get(userProfile).firstName # None
       THEN Get(userProfile).firstName
  ELSE "there"

\* preferences?.sizePreferences?.[brand]
PreferredSize(preferences, brand) ==
  IF /\ brand # None /\ IsSome(preferences) /\ IsSome(Get(preferences).sizePreferences)
     /\ <<brand>> \in DOMAIN Get(Get(preferences).sizePreferences)
  THEN Get(Get(preferences).sizePreferences)[<<brand>>]
  ELSE None

\* preferences?.<list> || []
PreferredList(preferences, field) ==
  IF IsSome(preferences) THEN OrEmptySeq(Get(preferences)[field]) ELSE << >>

\* the two templates of the default case
TEMPLATE_TELL_MORE ==
  <<"I understand you're looking for something specific. Could you tell me more about what you have in mind? I can help with color, style, occasion, or budget preferences.">>
TemplateGreeting(userName) ==
  <<"Hi ", userName, "! I'm here to help you find the perfect fashion items. You can ask me to search for products, get recommendations, check sizes, or help with your orders. What would you like to explore today?">>

\* a response text that was returned / an error that was thrown instead
Returned(text) == [raised |-> None, text |-> text]
Raised(error) == [raised |-> error, text |-> << >>]

\* case 'check_availability': it reads brand, the const that case
\* 'ask_about_size' of the same switch block declares. A build that keeps
\* block scoping throws a ReferenceError there; a build that lowers const to
\* var reads undefined
CheckAvailability(preferences) ==
  IF ~env.hoisted THEN Raised("ReferenceError")
  ELSE
    LET colors == PreferredList(preferences, "colorPreferences") IN
    IF colors # << >>
    THEN Returned(<<"I'll check if that item is available", " in ", colors[1], " right away!">>)
    ELSE Returned(<<"I'll check if that item is available in your size and preferred color right away!">>)

\* VoiceAssistant.generateContextualResponse (query and history are not read)
generateContextualResponse(intentAnalysis, userProfile, context, preferences) ==
  LET intent == intentAnalysis.intent
      entities == intentAnalysis.entities
      userName == UserName(userProfile)
      occasion(pre) == IF entities.occasion # None THEN <<pre, entities.occasion>> ELSE << >>
  IN
  CASE intent = "search_product" ->
         LET productDesc == (IF entities.color # None THEN <<entities.color>> ELSE << >>)
                            \o (IF entities.category # None THEN <<entities.category>> ELSE << >>)
             searchDesc == IF productDesc # << >> THEN JoinWith(productDesc, " ") ELSE <<"items">>
             preferredColors == PreferredList(preferences, "colorPreferences")
         IN IF preferredColors # << >> /\ entities.color = None
            THEN Returned(<<"I'll help you find ">> \o searchDesc
                          \o <<". Based on your preference for ">>
                          \o JoinWith(preferredColors, " and ")
                          \o <<", let me search our collection for you, ", userName, "!">>)
            ELSE Returned(<<"I'll help you find ">> \o searchDesc \o occasion(" for ")
                          \o <<". Let me search our collection for you, ", userName, "!">>)
    [] intent = "get_recommendations" ->
         LET styles == PreferredList(preferences, "stylePreferences")
             prefText == IF styles # << >>
                         THEN <<" based on your preference for ">> \o JoinWith(styles, " and ")
                         ELSE << >>
         IN Returned(<<"Based on your style preferences">> \o prefText
                     \o (IF entities.occasion # None
                         THEN <<" and the ", entities.occasion, " occasion">> ELSE << >>)
                     \o <<", I have some great recommendations for you! Would you like me to show you some options?">>)
    [] intent = "ask_about_size" ->
         LET brand == IF entities.brand # None THEN entities.brand ELSE context.lastBrand
             preferredSize == PreferredSize(preferences, brand)
         IN IF preferredSize # None
            THEN Returned(<<"Based on your previous purchases, you wear a ", preferredSize,
                            " in ", brand,
                            ". Would you like me to check if that size is available?">>)
            ELSE Returned(<<"I can help you find the perfect size! ">>
                          \o (IF entities.size # None
                              THEN <<"You mentioned size ", entities.size, ". ">> ELSE << >>)
                          \o <<"Would you like me to check your measurements and recommend the best fit?">>)
    [] intent = "add_to_cart" ->
         Returned(<<"Great choice! I'll add that to your cart. Would you like to continue shopping or proceed to checkout?">>)
    [] intent = "return_product" ->
         Returned(<<"I can help you with your return. Do you have an order number, or would you like me to look up your recent orders?">>)
    [] intent = "track_order" ->
         Returned(<<"Let me check the status of your order for you. One moment please!">>)
    [] intent = "check_availability" -> CheckAvailability(preferences)
    [] OTHER ->
         IF context.lastIntent \in {"search_product", "get_recommendations"}
         THEN Returned(TEMPLATE_TELL_MORE)
         ELSE Returned(TemplateGreeting(userName))

\* inputs of generateContextualResponse
NoRuleEntities ==
  [color |-> None, category |-> None, occasion |-> None, size |-> None,
   brand |-> None, priceRange |-> Absent]
GenIntents == Range(INTENTS) \cup {"unmapped_intent"}
GenEntities ==
  { NoRuleEntities,
    [NoRuleEntities EXCEPT !.color = "blue", !.category = "dress", !.occasion = "party"],
    [NoRuleEntities EXCEPT !.brand = "acme", !.size = "M"] }
GenProfiles == {Absent, Some([name |-> "Ana", firstName |-> None])}
GenContexts ==
  { [lastIntent |-> None, lastBrand |-> None],
    [lastIntent |-> "search_product", lastBrand |-> "acme"] }
GenPreferences ==
  { Absent, Some(EmptyPrefs),
    Some([EmptyPrefs EXCEPT !.colorPreferences = Some(<<"green", "navy">>),
                            !.stylePreferences = Some(<<"casual">>),
                            !.sizePreferences = Some(OneSize(<<"acme">>, "M"))]) }

\* generateContextualResponse(...) is called and returns or throws
GenerateContextual(p, ia, userProfile, context, preferences) ==
  /\ At(p, "idle") /\ "nlu" \in env.apis
  /\ LET out == generateContextualResponse(ia, userProfile, context, preferences) IN
     Set(p, [IdleTurn EXCEPT !.api = "respond", !.intent = Some(ia),
                             !.state = Some(context), !.response = out.text,
                             !.lastError = out.raised,
                             !.pc = IF out.raised = None THEN "returned" ELSE "thrown"])
  /\ Frame

\* ------------------------------------------------- preference detection
\* utterances (sequences of words) and extractor results handed to
\* detectPreferencesFromQuery
U_RACHEL == <<"i", "prefer", "rachel", "voice">>
U_RACHELS == <<"i", "prefer", "rachel's", "voice">>
U_WEAR == <<"i", "wear", "large", "for", "zara", "jeans">>
DetectTexts == Utterances \cup {U_RACHEL, U_RACHELS, U_WEAR, << >>}
DetectIntents ==
  IntentResults \cup
    { [intent |-> "ask_about_size",
       entities |-> [NoEntities EXCEPT !.brand = "zara", !.size = "L"],
       confidence |-> 85] }

\* detectPreferencesFromQuery(text, intentAnalysis) is called and returns
DetectPreferences(p, text, ia) ==
  /\ At(p, "idle") /\ "nlu" \in env.apis
  /\ Set(p, [IdleTurn EXCEPT !.api = "detect", !.text = text, !.intent = Some(ia),
                             !.prefsToSave = detectPreferencesFromQuery(text, ia),
                             !.pc = "returned"])
  /\ Frame

\* calls of the rule-based functions, which read no store
InitNlu ==
  /\ env \in {e \in Envs({"nlu"}, {1}) : ~e.openaiKey /\ ~e.elevenLabsKey}
  /\ InitStores
  /\ cacheConv = [u \in Users |-> Absent]
NextNlu ==
  \E p \in CallIds :
    \/ \E text \in NluTexts : ExtractRuleBased(p, text)
    \/ \E ia \in [intent : GenIntents, entities : GenEntities], userProfile \in GenProfiles,
          context \in GenContexts, preferences \in GenPreferences :
         GenerateContextual(p, ia, userProfile, context, preferences)
    \/ \E text \in DetectTexts, ia \in DetectIntents : DetectPreferences(p, text, ia)
SpecNlu == InitNlu /\ [][NextNlu]_vars

\* no pattern of the if / else-if chain matches the lowercased text
NoIntentKeyword(text) ==
  ~MatchesKeyword(ToLowerCase(text),
                  KW_PREFERENCE \cup KW_SEARCH \cup KW_RECOMMEND \cup KW_SIZE
                    \cup KW_CART \cup KW_RETURN \cup KW_TRACK)

\* C11: the rule-based extractor returns for every text (it has no throwing
\* path), the intent it returns is a member of the closed list, and it is
\* general_question when no intent keyword matches.
C11_IntentInClosedList ==
  \A p \in CallIds :
    LET r == turn[p] IN
    r.api = "extract" =>
      /\ r.pc = "returned" /\ IsSome(r.result)
      /\ Get(r.result).intent \in Range(INTENTS)
      /\ NoIntentKeyword(r.text) => Get(r.result).intent = "general_question"

\* C11 witness: garbled text and the empty string were answered general_question
C11_Witness ==
  \E p \in CallIds :
    /\ turn[p].api = "extract" /\ turn[p].text \in {T_GARBLED, T_EMPTY}
    /\ Get(turn[p].result).intent = "general_question"

\* the entries of a vocabulary the text names: as a word of its own, or as
\* that word with a plural ending
Names(s, chars) ==
  \E n \in {chars, chars \o <<"s">>, chars \o <<"e", "s">>} :
    \E i \in 1..Len(s) : WordAt(s, n, i)
NamedIn(text, list) ==
  {list[i].name : i \in {k \in 1..Len(list) : Names(ToLowerCase(text), list[k].chars)}}

\* C12 (as claimed): a text with a search keyword and no preference keyword
\* gets intent search_product, and entities.color / entities.category are the
\* colour / category the text names; 'find blue dresses' gives blue and dress.
C12_SearchEntities ==
  \A p \in CallIds :
    LET r == turn[p]
        s == ToLowerCase(r.text)
        out == Get(r.result) IN
    (/\ r.api = "extract"
     /\ MatchesKeyword(s, KW_SEARCH) /\ ~MatchesKeyword(s, KW_PREFERENCE)) =>
      /\ out.intent = "search_product"
      /\ \A c \in NamedIn(r.text, COLORS) :
           NamedIn(r.text, COLORS) = {c} => out.entities.color = c
      /\ \A c \in NamedIn(r.text, CATEGORIES) :
           NamedIn(r.text, CATEGORIES) = {c} => out.entities.category = c
      /\ r.text = T_FIND => out.entities.color = "blue" /\ out.entities.category = "dress"

\* the intents generateContextualResponse has a case for
TemplateIntents ==
  {"search_product", "get_recommendations", "ask_about_size", "add_to_cart",
   "return_product", "track_order", "check_availability"}

\* C13 (as claimed): for every intent, entities, preferences and context the
\* template generator returns a non-empty text and throws nothing, and an
\* intent without a case of its own gets a catch-all template.
C13_TemplateNeverEmpty ==
  \A p \in CallIds :
    LET r == turn[p] IN
    r.api = "respond" =>
      /\ r.pc = "returned" /\ r.response # << >>
      /\ Get(r.intent).intent \notin TemplateIntents =>
           \/ r.response = TEMPLATE_TELL_MORE
           \/ \E name \in {"there", "Ana"} : r.response = TemplateGreeting(name)

\* C17 (as claimed): "I'm a medium in Acme" is detected as
\* sizePreferences = {Acme: "M"}.
C17_SizeForBrand ==
  \A p \in CallIds :
    LET r == turn[p] IN
    (r.api = "detect" /\ r.text = U_SIZE) =>
      /\ IsSome(r.prefsToSave)
      /\ Get(r.prefsToSave).sizePreferences = Some(OneSize(<<"Acme">>, "M"))

\* --------------------------------------------------- preferences (public API)
\* the deltas handed to updateUserPreferences
D_ACME == [EmptyPrefs EXCEPT !.sizePreferences = Some(OneSize(<<"acme">>, "M"))]
D_ZARA ==
  [EmptyPrefs EXCEPT !.sizePreferences = Some(OneSize(<<"zara">>, "L")),
                     !.colorPreferences = Some(<<"blue">>)]
D_ACME_S ==
  [EmptyPrefs EXCEPT !.sizePreferences = Some(OneSize(<<"acme">>, "S")),
                     !.colorPreferences = Some(<<"red", "blue">>)]
PrefDeltas == {D_ACME, D_ZARA, D_ACME_S}

\* history: the position of a call among the calls started so far
NextOrder == Cardinality({q \in CallIds : turn[q].pc # "idle"}) + 1

\* updateUserPreferences(userId, preferences) is called: saveUserPreferences
\* up to its first await
updateUserPreferences(p, u, d) ==
  /\ At(p, "idle") /\ "prefs" \in env.apis
  /\ Set(p, [IdleTurn EXCEPT !.api = "update", !.userId = u, !.prefsToSave = Some(d),
                             !.order = NextOrder, !.pc = "prefsRead"])
  /\ Frame

\* getUserPreferences(userId) is called: getUserVoicePreferences up to its
\* first await
getUserPreferences(p, u) ==
  /\ At(p, "idle") /\ "prefs" \in env.apis
  /\ Set(p, [IdleTurn EXCEPT !.api = "get", !.userId = u, !.order = NextOrder,
                             !.pc = "prefsRead"])
  /\ Frame

\* no other call is in progress
Serial(p) == \A q \in CallIds \ {p} : turn[q].pc \in {"idle", "returned", "thrown"}

PrefsOk(p) == PrefsReadOk(p) \/ PrefsStore(p) \/ PrefsCache(p) \/ PrefsLog(p)
PrefsFault(p) == PrefsReadFail(p) \/ SavePrefsFail(p)

\* calls of the preferences API one after the other, with at most MaxFaults
\* failing cache or store operations
InitPrefs ==
  /\ env \in {e \in Envs({"prefs"}, CallIds) : ~e.openaiKey /\ ~e.elevenLabsKey /\ e.hoisted}
  /\ InitStores
  /\ cacheConv = [u \in Users |-> Absent]
NextPrefs ==
  \E p \in CallIds :
    \/ Serial(p) /\ \E u \in Users, d \in PrefDeltas : updateUserPreferences(p, u, d)
    \/ Serial(p) /\ \E u \in Users : getUserPreferences(p, u)
    \/ PrefsOk(p)
    \/ PrefsFault(p)
SpecPrefs == InitPrefs /\ [][NextPrefs]_vars

\* two calls of the preferences API side by side, every operation succeeding
InitPrefsConc ==
  /\ env \in {e \in Envs({"prefs"}, {1, 2}) : ~e.openaiKey /\ ~e.elevenLabsKey /\ e.hoisted}
  /\ InitStores
  /\ cacheConv = [u \in Users |-> Absent]
NextPrefsConc ==
  \E p \in CallIds :
    \/ \E u \in Users, d \in PrefDeltas : updateUserPreferences(p, u, d)
    \/ \E u \in Users : getUserPreferences(p, u)
    \/ PrefsOk(p)
SpecPrefsConc == InitPrefsConc /\ [][NextPrefsConc]_vars

\* a call of updateUserPreferences that has returned
Saved(r) == r.api = "update" /\ r.pc = "returned"
\* the brands a delta names a size for
DeltaBrands(d) == DOMAIN OrEmptyMap(d.sizePreferences)

\* C14 (as claimed): two saves in a row with the same delta for the same user
\* leave the durable store and the cache as they were after the first.
C14_MergeIdempotent ==
  \A p, q \in CallIds :
    (/\ Saved(turn[p]) /\ Saved(turn[q]) /\ turn[q].order = turn[p].order + 1
     /\ turn[p].userId = turn[q].userId /\ turn[p].prefsToSave = turn[q].prefsToSave)
      => turn[q].stored = turn[p].stored

\* m holds the key-wise union of the maps e and d, the value of d winning
IsKeywiseUnion(e, d, m) ==
  /\ DOMAIN m = DOMAIN e \cup DOMAIN d
  /\ \A k \in DOMAIN m : m[k] = IF k \in DOMAIN d THEN d[k] ELSE e[k]
\* the position of the first occurrence of x in the sequence s
FirstAt(s, x) == CHOOSE i \in 1..Len(s) : s[i] = x /\ \A j \in 1..(i - 1) : s[j] # x
\* m holds the elements of s once each, in the order of their first occurrence
IsFirstSeen(s, m) ==
  /\ Range(m) = Range(s)
  /\ \A i, j \in 1..Len(m) : i < j => m[i] # m[j] /\ FirstAt(s, m[i]) < FirstAt(s, m[j])
\* m is merge(e, d) as the claim describes it
IsMerge(e, d, m) ==
  /\ IsSome(m.sizePreferences)
  /\ IsKeywiseUnion(OrEmptyMap(e.sizePreferences), OrEmptyMap(d.sizePreferences),
                    Get(m.sizePreferences))
  /\ \A f \in {"colorPreferences", "stylePreferences", "brandPreferences"} :
       IsSome(m[f]) /\ IsFirstSeen(OrEmptySeq(e[f]) \o OrEmptySeq(d[f]), Get(m[f]))

\* C15: what saveUserPreferences writes to the durable store, and then to
\* the cache, is merge(existing, delta): sizes key-wise with the delta
\* winning, each list the existing one followed by the delta's, duplicates
\* removed keeping the first occurrence.
C15_MergeSemantics ==
  \A p \in CallIds :
    LET r == turn[p] IN
    r.api = "update" =>
      /\ r.pc \in {"prefsCache", "prefsLog"} =>
           /\ IsSome(memPrefs[r.userId])
           /\ IsMerge(r.existing, Get(r.prefsToSave), Get(memPrefs[r.userId]))
      /\ r.pc = "prefsLog" =>
           /\ IsSome(cachePrefs[r.userId])
           /\ IsMerge(r.existing, Get(r.prefsToSave), Get(cachePrefs[r.userId]))

\* C15 witness: sizes for acme and zara and the colours red, blue were merged
\* from two deltas that share acme and blue
C15_Witness ==
  \E p \in CallIds :
    /\ turn[p].api = "update" /\ turn[p].pc = "prefsLog"
    /\ turn[p].prefsToSave = Some(D_ACME_S)
    /\ turn[p].existing.colorPreferences = Some(<<"blue">>)
    /\ Get(memPrefs[turn[p].userId]).colorPreferences = Some(<<"blue", "red">>)
    /\ Get(Get(memPrefs[turn[p].userId]).sizePreferences)[<<"acme">>] = "S"
    /\ <<"zara">> \in DOMAIN Get(Get(memPrefs[turn[p].userId]).sizePreferences)

\* C16 (as claimed): once a save has stored size S for brand B, a later
\* getUserPreferences returns S for B as long as the saves in between name
\* other brands only.
C16_SizeSurvives ==
  \A p, q \in CallIds : \A b \in DeltaBrands(D_ACME) \cup DeltaBrands(D_ZARA) :
    LET d == Get(turn[p].prefsToSave) IN
    (/\ Saved(turn[p]) /\ b \in DeltaBrands(d)
     /\ turn[q].api = "get" /\ turn[q].pc = "returned"
     /\ turn[q].userId = turn[p].userId /\ turn[q].order > turn[p].order
     /\ \A c \in CallIds :
          (turn[c].api = "update" /\ turn[c].order > turn[p].order
           /\ turn[c].order < turn[q].order)
            => b \notin DeltaBrands(Get(turn[c].prefsToSave)))
      => /\ IsSome(Get(turn[q].result).sizePreferences)
         /\ b \in DOMAIN Get(Get(turn[q].result).sizePreferences)
         /\ Get(Get(turn[q].result).sizePreferences)[b] = Get(d.sizePreferences)[b]

\* a save for the user is in progress
Saving(u) ==
  \E p \in CallIds :
    /\ turn[p].api = "update" /\ turn[p].userId = u
    /\ turn[p].pc \in {"prefsRead", "prefsStore", "prefsCache", "prefsLog"}

\* C18 (as claimed): whenever no save for a user is in progress, the cached
\* preferences, if present, equal the durable ones.
C18_CacheIsCopy ==
  \A u \in Users :
    (~Saving(u) /\ IsSome(cachePrefs[u])) => cachePrefs[u] = memPrefs[u]

\* ------------------------------------------------ concurrent voice turns
\* the cached conversation state carries what the turn r wrote
WrittenBy(c, r) ==
  /\ IsSome(r.intent)
  /\ c.lastMessage = r.text /\ c.lastResponse = r.response /\ c.lastQuery = r.text
  /\ c.lastIntent = Get(r.intent).intent /\ c.lastEntities = Get(r.intent).entities
  /\ c.confidence = Get(r.intent).confidence
\* the turn has passed its write of the conversation state
HasWritten(r) ==
  r.api = "voice" /\ r.pc \in {"appendUser", "appendAssistant", "returned"}

\* C19: with turns of one user running side by side, the cached conversation
\* state is always the state one of them wrote: lastMessage, lastResponse,
\* lastQuery, lastIntent, lastEntities and confidence come from the same
\* turn, also after both have finished.
C19_StateFromOneTurn ==
  \A u \in Users :
    IsSome(cacheConv[u]) =>
      \E p \in CallIds :
        /\ turn[p].userId = u /\ HasWritten(turn[p])
        /\ WrittenBy(Get(cacheConv[u]), turn[p])

\* C19 witness: two turns of one user with different utterances and intents
\* overlapped (the second loaded the state before the first wrote it) and
\* have both finished
C19_Witness ==
  \E u \in Users : \E p, q \in CallIds :
    /\ p # q /\ turn[p].userId = u /\ turn[q].userId = u
    /\ turn[p].pc = "returned" /\ turn[q].pc = "returned"
    /\ turn[p].api = "voice" /\ turn[q].api = "voice"
    /\ turn[p].text # turn[q].text
    /\ Get(turn[p].intent).intent # Get(turn[q].intent).intent
    /\ turn[p].state = Absent /\ turn[q].state = Absent
    /\ IsSome(cacheConv[u])

\* ----------------------------------------------------- conversation ids
\* startConversation(userId) is called: up to the await of
\* getUserVoicePreferences (getOrCreateUserProfile swallows its errors and
\* the profile carries no preference fields)
startConversation(p, u) ==
  /\ At(p, "idle") /\ "start" \in env.apis
  /\ Set(p, [IdleTurn EXCEPT !.api = "start", !.userId = u, !.pc = "prefsRead"])
  /\ Frame

\* await vultrValkey.set(`conversation:${conversationId}:settings`, ...)
StartSettings(p) ==
  /\ At(p, "startSettings")
  /\ Set(p, [turn[p] EXCEPT !.pc = "startState"])
  /\ Frame

\* the state is built (sessionStart: Date.now()), cached and returned
StartState(p) ==
  LET r == turn[p]
      state == [StartedState(r.userId, clock, r.existing) EXCEPT
                  !.conversationId = Get(r.created)] IN
  /\ At(p, "startState")
  /\ cacheConv' = [cacheConv EXCEPT ![r.userId] = Some(state)]
  /\ Set(p, [r EXCEPT !.pc = "returned", !.result = Some(state)])
  /\ UNCHANGED <<env, clock, cachePrefs, memPrefs, memConv, memPrefLog, svc, faults>>

\* Date.now() advances
MaxClock == 1
Tick ==
  /\ clock < MaxClock
  /\ clock' = clock + 1
  /\ UNCHANGED <<env, turn, cacheConv, cachePrefs, memPrefs, memConv, memPrefLog, svc, faults>>

\* conversations created by startConversation and by voice turns: a call of
\* startConversation beside a second one or beside a voice turn, every awaited
\* operation succeeding
VoiceCalls == {1}
InitIds ==
  /\ env \in {e \in Envs({"voice", "start"}, {1, 2}) : e.sttApi = e.elevenLabsKey}
  /\ InitStores
  /\ cacheConv = [u \in Users |-> Absent]
NextIds ==
  \/ Tick
  \/ \E p \in CallIds :
       \/ \E u \in Users : startConversation(p, u)
       \/ StartSettings(p) \/ StartState(p)
       \/ p \in VoiceCalls /\ \E a \in TurnAudios, u \in Users : processVoiceInput(p, a, u)
       \/ TurnStepsOk(p)
SpecIds == InitIds /\ [][NextIds]_vars

\* C20 (as claimed): no two creations of a conversation, by startConversation
\* or by a voice turn that found no state, produce the same conversation id.
C20_UniqueIds ==
  \A p, q \in CallIds :
    (p # q /\ IsSome(turn[p].created) /\ IsSome(turn[q].created))
      => turn[p].created # turn[q].created

\* ----------------------------------------------------------- text turns
\* processTextQuery(query, userId, options) is called: up to its first await
processTextQuery(p, query, u, audioPreferred) ==
  /\ At(p, "idle") /\ "text" \in env.apis
  /\ Set(p, [IdleTurn EXCEPT !.api = "text", !.text = query, !.userId = u,
                             !.audioPreferred = audioPreferred,
                             !.pc = IF u # NoUser THEN "textLoad" ELSE "textIntent"])
  /\ Frame

\* await Promise.all([vultrValkey.get(conversation:<userId>), userMemory.get(userId)])
TextLoad(p) ==
  /\ At(p, "textLoad")
  /\ Set(p, [turn[p] EXCEPT !.state = cacheConv[turn[p].userId], !.pc = "textHistory"])
  /\ Frame

\* await this.getConversationHistory(userId, 10): a failed read gives [];
\* the history is handed to llmService only
TextHistory(p) ==
  /\ At(p, "textHistory")
  /\ Set(p, [turn[p] EXCEPT !.pc = "textIntent"])
  /\ Frame

\* await llmService.extractIntentAndEntities(...)
TextIntentOk(p, ia) ==
  /\ At(p, "textIntent")
  /\ Set(p, [turn[p] EXCEPT !.intent = Some(ia), !.pc = "textRespond"])
  /\ Frame

\* return { text, intent, entities, audio }
TextResult(r) ==
  [r EXCEPT !.pc = "returned",
            !.result = Some([text |-> r.response, audio |-> r.audioOut,
                             intent |-> Get(r.intent).intent,
                             entities |-> Get(r.intent).entities])]

\* processTextQuery after the synthesis step: the state is written only if
\* one was loaded
AfterTextSynthesis(r) ==
  IF IsSome(r.state) /\ r.userId # NoUser THEN [r EXCEPT !.pc = "textSave"]
  ELSE TextResult(r)

\* await llmService.generateResponse(...)
TextRespondOk(p, text) ==
  /\ At(p, "textRespond")
  /\ LET r == [turn[p] EXCEPT !.response = text] IN
     Set(p, IF r.audioPreferred THEN [r EXCEPT !.pc = "textTts"]
            ELSE AfterTextSynthesis(r))
  /\ Frame

\* await ttsService.textToSpeech(...): an error is caught and logged
TextTtsOk(p) ==
  /\ At(p, "textTts")
  /\ Set(p, AfterTextSynthesis([turn[p] EXCEPT !.synth = Append(@, "ok"),
                                               !.audioOut = "ttsService"]))
  /\ Frame
TextTtsFail(p, class) ==
  /\ At(p, "textTts")
  /\ Set(p, AfterTextSynthesis([turn[p] EXCEPT !.ttsFailure = class,
                                               !.synth = Append(@, class),
                                               !.synthFailed = TRUE]))
  /\ Fault

\* the conversation state processTextQuery writes
TextState(r, now) ==
  LET ia == Get(r.intent) IN
  [Get(r.state) EXCEPT
     !.lastMessage = r.text, !.lastResponse = r.response,
     !.lastQuery = r.text, !.lastIntent = ia.intent, !.lastEntities = ia.entities,
     !.timestamp = now, !.confidence = ia.confidence]

\* await vultrValkey.set(`conversation:${userId}`, state, 3600)
TextSave(p) ==
  /\ At(p, "textSave")
  /\ cacheConv' = [cacheConv EXCEPT ![turn[p].userId] = Some(TextState(turn[p], clock))]
  /\ Set(p, TextResult(turn[p]))
  /\ UNCHANGED <<env, clock, cachePrefs, memPrefs, memConv, memPrefLog, svc, faults>>

\* an awaited read, llmService call or write of processTextQuery fails: the
\* catch logs and rethrows
TextFail(p) ==
  /\ p \in env.calls /\ turn[p].pc \in {"textLoad", "textIntent", "textRespond", "textSave"}
  /\ Set(p, [turn[p] EXCEPT !.pc = "thrown", !.failedAt = turn[p].pc,
                            !.lastError = IF turn[p].pc \in {"textLoad", "textSave"}
                                          THEN "cache or store operation failed"
                                          ELSE "llmService failed"])
  /\ Fault

\* processTextQuery: the steps in which the awaited operation succeeds
TextStepsOk(p) ==
  \/ TextLoad(p) \/ TextHistory(p)
  \/ \E ia \in IntentResults : TextIntentOk(p, ia)
  \/ \E t \in ResponseTexts : TextRespondOk(p, t)
  \/ TextTtsOk(p)
  \/ TextSave(p)
TextFault(p) == TextFail(p) \/ \E c \in TtsFailureClasses : TextTtsFail(p, c)

\* a voice turn beside a text turn, or two text turns, of a user whose
\* conversation may have been started; every awaited operation succeeding
InitSession ==
  /\ env \in {e \in Envs({"voice", "text"}, {1, 2}) : e.sttApi = e.elevenLabsKey}
  /\ InitStores /\ InitConversations
NextSession ==
  \E p \in CallIds :
    \/ p \in VoiceCalls /\ \E a \in TurnAudios, u \in Users : processVoiceInput(p, a, u)
    \/ TurnStepsOk(p)
    \/ \E q \in Utterances, u \in Users \cup {NoUser}, ap \in BOOLEAN :
         processTextQuery(p, q, u, ap)
    \/ TextStepsOk(p)
SpecSession == InitSession /\ [][NextSession]_vars

\* the call p returns a turn of a user in this step
ReturnsTurn(p) ==
  /\ turn[p].pc # "returned" /\ turn'[p].pc = "returned"
  /\ turn'[p].api \in {"voice", "text"} /\ turn'[p].userId # NoUser

\* C21 (as claimed): as long as the cached conversation state of a user
\* keeps its conversation id, its messageCount never decreases, however
\* voice and text turns interleave.
C21_CounterMonotone ==
  [][\A u \in Users :
       (/\ IsSome(cacheConv[u]) /\ IsSome(cacheConv'[u])
        /\ Get(cacheConv'[u]).conversationId = Get(cacheConv[u]).conversationId)
         => Get(cacheConv'[u]).messageCount >= Get(cacheConv[u]).messageCount]_vars

\* C23 (as claimed): when a voice or text turn of a user returns, the cache
\* holds a conversation state for that user whose last user utterance and
\* last assistant utterance are those of the turn.
C23_StateAfterTurn ==
  [][\A p \in CallIds :
       ReturnsTurn(p) =>
         /\ IsSome(cacheConv'[turn'[p].userId])
         /\ Get(cacheConv'[turn'[p].userId]).lastMessage = turn'[p].text
         /\ Get(cacheConv'[turn'[p].userId]).lastResponse = turn'[p].response]_vars

\* C24 (as claimed): when a voice or text turn of a user returns, the
\* transcript log of the user holds a user entry with the turn's utterance
\* and, after it, an assistant entry with the turn's response.
C24_TranscriptAppended ==
  [][\A p \in CallIds :
       ReturnsTurn(p) =>
         LET log == memConv'[turn'[p].userId] IN
         \E i, j \in 1..Len(log) :
           /\ i < j
           /\ log[i].type = "user" /\ log[i].message = turn'[p].text
           /\ log[j].type = "assistant" /\ log[j].message = turn'[p].response]_vars

\* ------------------------------------------------------- endConversation
\* the conversation ids handed to endConversation
ConversationIds == {<<"conv", u, t>> : u \in Users, t \in 0..MaxClock}

\* endConversation(conversationId, userId) is called: without a userId
\* nothing is awaited and the call returns
endConversation(p, cid, u) ==
  /\ At(p, "idle") /\ "end" \in env.apis
  /\ Set(p, [IdleTurn EXCEPT !.api = "end", !.conversationId = Some(cid), !.userId = u,
                             !.pc = IF u # NoUser THEN "endState" ELSE "returned"])
  /\ Frame

\* await vultrValkey.delete(`conversation:${userId}`)
EndDeleteState(p) ==
  /\ At(p, "endState")
  /\ cacheConv' = [cacheConv EXCEPT ![turn[p].userId] = Absent]
  /\ Set(p, [turn[p] EXCEPT !.pc = "endSettings"])
  /\ UNCHANGED <<env, clock, cachePrefs, memPrefs, memConv, memPrefLog, svc, faults>>

\* await vultrValkey.delete(`conversation:${conversationId}:settings`)
EndDeleteSettings(p) ==
  /\ At(p, "endSettings")
  /\ Set(p, [turn[p] EXCEPT !.pc = "returned"])
  /\ Frame

\* a delete fails: the catch logs the error and the call returns
EndFail(p) ==
  /\ p \in env.calls /\ turn[p].pc \in {"endState", "endSettings"}
  /\ Set(p, [turn[p] EXCEPT !.pc = "returned", !.failedAt = turn[p].pc,
                            !.lastError = "cache delete failed"])
  /\ Fault

\* calls of endConversation for a user whose conversation may have been started
InitEnd ==
  /\ env \in Envs({"end"}, CallIds)
  /\ InitStores /\ InitConversations
NextEnd ==
  \E p \in CallIds :
    \/ \E cid \in ConversationIds, u \in Users \cup {NoUser} : endConversation(p, cid, u)
    \/ EndDeleteState(p) \/ EndDeleteSettings(p)
    \/ EndFail(p)
SpecEnd == InitEnd /\ [][NextEnd]_vars

\* C22 (as claimed): once endConversation has returned, the cache holds no
\* conversation state with that conversation id, with or without a userId.
C22_EndRemovesState ==
  \A p \in CallIds :
    (turn[p].api = "end" /\ turn[p].pc = "returned") =>
      \A u \in Users :
        IsSome(cacheConv[u]) => Some(Get(cacheConv[u]).conversationId) # turn[p].conversationId

\* ------------------------------------------- preferences in voice turns
\* the sequence s ends with the sequence t
EndsWith(s, t) ==
  Len(s) >= Len(t) /\ SubSeq(s, Len(s) - Len(t) + 1, Len(s)) = t

\* C25 (as claimed): a voice turn returns a text that ends with the
\* acknowledgement clause exactly when it has saved preferences, whichever
\* field was saved.
C25_AckWhenSaved ==
  \A p \in CallIds :
    (turn[p].api = "voice" /\ turn[p].pc = "returned") =>
      (Get(turn[p].result).preferencesSaved <=> EndsWith(Get(turn[p].result).text, ACK_CLAUSE))

\* C26 (as claimed): the preferencesSaved flag a voice turn returns is true
\* exactly when the turn changed the durably stored preferences.
C26_FlagIffChanged ==
  \A p \in CallIds :
    (turn[p].api = "voice" /\ turn[p].pc = "returned" /\ turn[p].userId # NoUser) =>
      (Get(turn[p].result).preferencesSaved <=> turn[p].changed)

\* ------------------------------------------------------- cache failures
\* the errors of the awaits of a turn that are Fast Session Cache operations:
\* the read and the write of the conversation state
CacheErrors ==
  {"cache or store read failed", "cache write failed", "cache or store operation failed"}

\* C27 (as claimed): a failing cache read or write never ends an attempt of
\* a turn: no turn is retried or rejected because of it.
C27_CacheFailureIsMiss ==
  \A p \in CallIds :
    turn[p].api \in {"voice", "text"} => turn[p].lastError \notin CacheErrors

\* ------------------------------------------------------ failure isolation
\* voice turns one after the other in which the synthesis provider and the
\* SDK may fail
InitIso ==
  /\ env \in {e \in Envs({"voice"}, {1, 2}) : e.sttApi = e.elevenLabsKey /\ e.hoisted}
  /\ InitStores
  /\ cacheConv = [u \in Users |-> Absent]
NextIso ==
  \E p \in CallIds :
    \/ Serial(p) /\ \E a \in TurnAudios, u \in Users : processVoiceInput(p, a, u)
    \/ TurnStepsOk(p)
    \/ \E c \in TtsFailureClasses : TtsFail(p, c)
    \/ SdkOk(p) \/ SdkFail(p)
SpecIso == InitIso /\ [][NextIso]_vars

\* the places of an attempt after sttService.transcribe has returned a text
PastTranscription ==
  {"sttReturned", "load", "intent", "history", "respond", "prefsRead", "prefsStore",
   "prefsCache", "prefsLog", "tts", "sdk", "saveState", "appendUser", "appendAssistant",
   "returned"}
\* the places of an attempt after llmService.generateResponse has returned
PastGeneration ==
  {"prefsRead", "prefsStore", "prefsCache", "prefsLog", "tts", "sdk", "saveState",
   "appendUser", "appendAssistant", "returned"}
\* a synthesis failure has happened in some call
SynthesisHasFailed ==
  \E q \in CallIds : \E i \in 1..Len(turn[q].synth) : turn[q].synth[i] # "ok"

\* C28: whatever synthesis failures have happened, in this or an earlier
\* turn, every attempt of a voice turn calls the first configured
\* transcription provider and gets its response from the generation call:
\* neither is skipped or answered without a call.
C28_FailureIsolation ==
  \A p \in CallIds :
    LET r == turn[p] IN
    (r.api = "voice" /\ SynthesisHasFailed) =>
      /\ r.pc \in PastTranscription =>
           /\ env.openaiKey => r.calledA
           /\ (~env.openaiKey /\ env.elevenLabsKey /\ env.sttApi) => r.calledB
      /\ r.pc \in PastGeneration => r.response # << >>

\* C28 witness: a turn returned without audio after a failed synthesis, and
\* the next turn of the same user (its transcript entries follow the first
\* turn's) called a transcription provider and got a generated response
C28_Witness ==
  \E p, q \in CallIds : \E u \in Users :
    /\ p # q /\ turn[p].userId = u /\ turn[q].userId = u
    /\ turn[p].pc = "returned" /\ turn[p].synthFailed
    /\ turn[q].api = "voice" /\ turn[q].pc = "returned"
    /\ turn[p].text # turn[q].text /\ Len(memConv[u]) = 4
    /\ memConv[u][1].message = turn[p].text /\ memConv[u][3].message = turn[q].text
    /\ (turn[q].calledA \/ turn[q].calledB) /\ turn[q].response # << >>

\* -------------------------------------------------- conversation history
\* Array.prototype.slice(-limit): the last limit elements; slice(-0) is
\* slice(0), the whole array
SliceLast(history, limit) ==
  IF limit = 0 \/ limit >= Len(history) THEN history
  ELSE SubSeq(history, Len(history) - limit + 1, Len(history))

\* a transcript log of n entries, user and assistant entries in turn
TranscriptEntry(i) ==
  [type |-> IF i % 2 = 1 THEN "user" ELSE "assistant",
   message |-> IF i % 2 = 1 THEN U_FIND ELSE <<"Here are some blue dresses.">>,
   intent |-> IF i % 2 = 1 THEN "search_product" ELSE None,
   entities |-> NoEntities, timestamp |-> i,
   sttSource |-> IF i % 2 = 1 THEN "openai" ELSE None, preferencesSaved |-> FALSE]
Transcript(n) == [i \in 1..n |-> TranscriptEntry(i)]

\* the lengths of the stored transcripts and the limits handed in
MaxHistory == 4
HistoryLengths == (0..MaxHistory) \cup {11, 45}
HistoryLimits == {0, 1, 2, 10}

\* getConversationHistory(userId, limit) is called: up to its await
getConversationHistory(p, u, limit) ==
  /\ At(p, "idle") /\ "history" \in env.apis
  /\ Set(p, [IdleTurn EXCEPT !.api = "history", !.userId = u, !.limit = limit,
                             !.pc = "historyRead"])
  /\ Frame

\* await userMemory.get(`${userId}-conversation`) || []
HistoryReadOk(p) ==
  /\ At(p, "historyRead")
  /\ Set(p, [turn[p] EXCEPT !.pc = "returned",
                            !.result = Some(SliceLast(memConv[turn[p].userId],
                                                      turn[p].limit))])
  /\ Frame
\* the read fails: the catch logs the error and returns []
HistoryReadFail(p) ==
  /\ At(p, "historyRead")
  /\ Set(p, [turn[p] EXCEPT !.pc = "returned", !.result = Some(<< >>),
                            !.lastError = "store read failed"])
  /\ Fault

\* calls of getConversationHistory on a stored transcript
InitHist ==
  /\ env \in Envs({"history"}, CallIds)
  /\ clock = 0 /\ faults = 0
  /\ turn = [p \in CallIds |-> IdleTurn]
  /\ cachePrefs = [u \in Users |-> Absent]
  /\ memPrefs = [u \in Users |-> Absent]
  /\ memPrefLog = [u \in Users |-> << >>]
  /\ svc = IdleServices
  /\ cacheConv = [u \in Users |-> Absent]
  /\ memConv \in [Users -> {Transcript(n) : n \in HistoryLengths}]
NextHist ==
  \E p \in CallIds :
    \/ \E u \in Users, limit \in HistoryLimits : getConversationHistory(p, u, limit)
    \/ HistoryReadOk(p)
    \/ HistoryReadFail(p)
SpecHist == InitHist /\ [][NextHist]_vars

\* the call has returned the history it read
HistoryReturned(r) == r.api = "history" /\ r.pc = "returned" /\ r.lastError = None

\* C29 (as claimed): for a transcript of N >= 1 entries and a window, the
\* history returned has min(N, window + 1) entries.
C29_HistoryLength ==
  \A p \in CallIds :
    LET r == turn[p]
        N == Len(memConv[r.userId]) IN
    (HistoryReturned(r) /\ N >= 1) => Len(Get(r.result)) = Min(N, r.limit + 1)

\* C30 (as claimed): the history returned is unchanged by a second pass with
\* the same window, and 45 entries with window 10 give 11 entries, the first
\* tagged as a summary.
C30_SummaryIdempotent ==
  \A p \in CallIds :
    LET r == turn[p]
        N == Len(memConv[r.userId]) IN
    HistoryReturned(r) =>
      /\ SliceLast(Get(r.result), r.limit) = Get(r.result)
      /\ (N = 45 /\ r.limit = 10) =>
           Len(Get(r.result)) = 11 /\ Get(r.result)[1].type = "summary"

\* ---------------------------------------------------- preference snapshot
\* voice turns of one user one after the other, every awaited operation
\* succeeding; the providers may also return the utterance about Zara
InitSnap ==
  /\ env \in {e \in Envs({"voice"}, {1, 2}) : e.sttApi = e.elevenLabsKey /\ e.hoisted}
  /\ InitStores
  /\ cacheConv = [u \in Users |-> Absent]
NextSnap ==
  \E p \in CallIds :
    \/ Serial(p) /\ \E a \in TurnAudios, u \in Users : processVoiceInput(p, a, u)
    \/ TurnStepsOk(p)
    \/ WhisperOk(p, U_WEAR) \/ ElevenLabsOk(p, U_WEAR)
SpecSnap == InitSnap /\ [][NextSnap]_vars

\* two preference values (either may be absent) hold the same voice, the
\* same sizes by brand and the same list elements
SamePrefs(a, b) ==
  LET x == IF IsSome(a) THEN Get(a) ELSE EmptyPrefs
      y == IF IsSome(b) THEN Get(b) ELSE EmptyPrefs IN
  /\ x.voicePreference = y.voicePreference
  /\ OrEmptyMap(x.sizePreferences) = OrEmptyMap(y.sizePreferences)
  /\ \A f \in {"colorPreferences", "stylePreferences", "brandPreferences"} :
       OrEmptySeq(x[f]) = OrEmptySeq(y[f])

\* C32 (as claimed): when a voice turn that saved preferences writes the
\* conversation state, the preferences in that state hold what the durable
\* store holds for the user.
C32_SnapshotIsMerged ==
  [][\A p \in CallIds :
       (/\ turn[p].pc = "saveState" /\ turn'[p].pc = "appendUser"
        /\ turn[p].preferencesSaved)
         => SamePrefs(Get(cacheConv'[turn[p].userId]).preferences,
                      memPrefs'[turn[p].userId])]_vars

\* ---------------------------------------------------- attempts of a turn
\* the errors a turn raises when its audio or its transcript is unusable
InputErrors == {"Failed to transcribe audio input", "Audio file too large"}

\* C33 (as claimed): with a usable transcript and every awaited operation
\* succeeding, a voice turn of a user has no failed attempt: it is on its
\* first attempt, has not waited, and is not rejected.
C33_FirstAttemptReturns ==
  \A p \in CallIds :
    LET r == turn[p] IN
    (/\ r.api = "voice" /\ r.userId # NoUser /\ faults = 0
     /\ r.lastError \notin InputErrors)
      => r.lastError = None /\ r.attempt = 0 /\ r.sleeps = << >> /\ r.pc # "thrown"

\* the number of entries of a type in a transcript log
CountType(log, type) == Cardinality({i \in 1..Len(log) : log[i].type = type})

\* C34 (as claimed): whatever attempts of a voice turn fail, the turn
\* appends at most one user entry and one assistant entry and raises the
\* cached turn counter by at most one.
C34_EffectsAtMostOnce ==
  \A p \in CallIds : \A u \in Users :
    (turn[p].api = "voice" /\ turn[p].userId = u) =>
      /\ CountType(memConv[u], "user") <= 1
      /\ CountType(memConv[u], "assistant") <= 1
      /\ IsSome(cacheConv[u]) => Get(cacheConv[u]).messageCount <= 1

\* x is kept by y: every size key and every list element of x is in y
KeepsPrefs(a, b) ==
  LET x == IF IsSome(a) THEN Get(a) ELSE EmptyPrefs
      y == IF IsSome(b) THEN Get(b) ELSE EmptyPrefs IN
  /\ DOMAIN OrEmptyMap(x.sizePreferences) \subseteq DOMAIN OrEmptyMap(y.sizePreferences)
  /\ \A f \in {"colorPreferences", "stylePreferences", "brandPreferences"} :
       Range(OrEmptySeq(x[f])) \subseteq Range(OrEmptySeq(y[f]))

\* C35 (as claimed): no write of saveUserPreferences removes a size key or
\* a list element from the durable preferences, and the sizes of brands the
\* delta does not name stay as they were.
C35_NeverShrinks ==
  [][\A u \in Users :
       /\ KeepsPrefs(memPrefs[u], memPrefs'[u])
       /\ \A p \in CallIds :
            (turn[p].pc = "prefsStore" /\ turn'[p].pc = "prefsCache"
             /\ turn[p].userId = u /\ IsSome(memPrefs[u]))
              => \A k \in DOMAIN OrEmptyMap(Get(memPrefs[u]).sizePreferences) :
                   k \notin DeltaBrands(Get(turn[p].prefsToSave))
                     => OrEmptyMap(Get(memPrefs'[u]).sizePreferences)[k]
                          = OrEmptyMap(Get(memPrefs[u]).sizePreferences)[k]]_vars

\* the last n entries of a log, in log order (none for n = 0)
LastEntries(log, n) ==
  IF n >= Len(log) THEN log ELSE SubSeq(log, Len(log) - n + 1, Len(log))

\* C36 (as claimed): getConversationHistory returns the last `limit` entries
\* of the transcript log in log order, so at most `limit` of them and none
\* for limit = 0, and the empty list when the read of the store fails.
C36_AtMostLimit ==
  \A p \in CallIds :
    LET r == turn[p] IN
    (r.api = "history" /\ r.pc = "returned") =>
      /\ Len(Get(r.result)) <= r.limit
      /\ r.lastError = None => Get(r.result) = LastEntries(memConv[r.userId], r.limit)
      /\ r.lastError # None => Get(r.result) = << >>

\* ------------------------------------------- text turns without synthesis
\* text turns of users whose conversation may have been started; only the
\* synthesis call may fail
InitTextIso ==
  /\ env \in Envs({"text"}, {1, 2})
  /\ InitStores /\ InitConversations
NextTextIso ==
  \E p \in CallIds :
    \/ \E q \in Utterances, u \in Users \cup {NoUser}, ap \in BOOLEAN :
         processTextQuery(p, q, u, ap)
    \/ TextStepsOk(p)
    \/ \E c \in TtsFailureClasses : TextTtsFail(p, c)
SpecTextIso == InitTextIso /\ [][NextTextIso]_vars

\* the text turn p, whose synthesis failed, returns in this step
ReturnsUnsynthesised(p) ==
  /\ turn[p].pc # "returned" /\ turn'[p].pc = "returned"
  /\ turn'[p].api = "text" /\ turn'[p].audioPreferred /\ turn'[p].synthFailed

\* C37 (as claimed): a text turn with audioPreferred whose synthesis failed
\* is not rejected; it returns the response text, the intent and the
\* entities with no audio, and when it returns for a user the cached
\* conversation state of the user carries the turn's query and response.
C37_SynthesisNotFatal ==
  [][\A p \in CallIds :
       /\ (turn'[p].api = "text" /\ turn'[p].synthFailed) => turn'[p].pc # "thrown"
       /\ ReturnsUnsynthesised(p) =>
            LET r == turn'[p] IN
            /\ Get(r.result).text = r.response /\ r.response # << >>
            /\ Get(r.result).audio = None
            /\ Get(r.result).intent = Get(r.intent).intent
            /\ Get(r.result).entities = Get(r.intent).entities
            /\ r.userId # NoUser =>
                 /\ IsSome(cacheConv'[r.userId])
                 /\ Get(cacheConv'[r.userId]).lastMessage = r.text
                 /\ Get(cacheConv'[r.userId]).lastResponse = r.response]_vars

\* ------------------------------------------------- turns without a user
\* the places of a voice turn at which it awaits a read or a write of the
\* session cache or of the durable store
StorePlaces ==
  {"prompt", "load", "history", "prefsRead", "prefsStore", "prefsCache", "prefsLog",
   "saveState", "appendUser", "appendAssistant"}

\* C38: a voice turn without a userId never awaits a read or a write of the
\* cache or the store, and no step of it, returning and raising included,
\* changes a conversation state, the preferences or a transcript log.
C38_NoUserNoStore ==
  [][\A p \in CallIds :
       (turn'[p].api = "voice" /\ turn'[p].userId = NoUser) =>
         /\ turn'[p].pc \notin StorePlaces
         /\ UNCHANGED <<cacheConv, cachePrefs, memPrefs, memConv, memPrefLog>>]_vars

\* C38 witness: a voice turn without a userId that named a preference has
\* returned its result, after an attempt of it had failed
C38_Witness ==
  \E p \in CallIds :
    /\ turn[p].api = "voice" /\ turn[p].userId = NoUser /\ turn[p].pc = "returned"
    /\ IsSome(turn[p].prefsToSave) /\ turn[p].attempt > 0
    /\ Get(turn[p].result).text = turn[p].response

\* ---------------------------------------------------------- recommendations
\* getRecommendations(userPreferences, context) is called; k stands for the
\* cache key made of the two arguments
getRecommendations(p, k) ==
  /\ At(p, "idle") /\ "recommend" \in env.apis
  /\ Set(p, [IdleTurn EXCEPT !.api = "recommend", !.key = k, !.pc = "recCacheGet"])
  /\ Frame

\* await vultrValkey.get(cacheKey): a cached value is returned at once
RecCacheGet(p) ==
  /\ At(p, "recCacheGet")
  /\ Set(p, IF IsSome(svc.cache[turn[p].key])
            THEN [turn[p] EXCEPT !.pc = "returned", !.result = svc.cache[turn[p].key]]
            ELSE [turn[p] EXCEPT !.pc = "recFetch"])
  /\ Frame
\* the lookup fails: the catch logs and the call goes on to the provider
RecCacheGetFail(p) ==
  /\ At(p, "recCacheGet")
  /\ Set(p, [turn[p] EXCEPT !.pc = "recFetch", !.failedAt = "recCacheGet"])
  /\ Fault

\* return this.getFallbackRecommendations(userPreferences, context)
RecFallback(r, err) == [r EXCEPT !.pc = "recFallback", !.lastError = err]

\* await fetch(.../recommend) and response.json(): the ML results
RecFetchOk(p) ==
  /\ At(p, "recFetch")
  /\ Set(p, [turn[p] EXCEPT !.pc = "recCacheSet", !.result = Some("ml")])
  /\ Frame
\* !response.ok: an ExternalServiceError is thrown and caught
RecFetchStatus(p) ==
  /\ At(p, "recFetch")
  /\ Set(p, RecFallback(turn[p], "ExternalServiceError"))
  /\ Fault
\* the request or the parse of its body fails with another error
RecFetchError(p) ==
  /\ At(p, "recFetch")
  /\ Set(p, RecFallback(turn[p], "TypeError"))
  /\ Fault
\* the AbortController fires after API_TIMEOUT_MS: fetch rejects with an
\* AbortError, and the catch throws an ApiTimeoutError
RecFetchTimeout(p) ==
  /\ At(p, "recFetch")
  /\ Set(p, [turn[p] EXCEPT !.pc = "thrown", !.lastError = "ApiTimeoutError",
                            !.failedAt = "recFetch"])
  /\ Fault

\* await vultrValkey.set(cacheKey, results, 1800)
RecCacheSet(p) ==
  /\ At(p, "recCacheSet")
  /\ svc' = [svc EXCEPT !.cache[turn[p].key] = turn[p].result]
  /\ Set(p, [turn[p] EXCEPT !.pc = "returned"])
  /\ UNCHANGED <<env, clock, cacheConv, cachePrefs, memPrefs, memConv, memPrefLog, faults>>
\* the write fails: the catch logs and the results are returned
RecCacheSetFail(p) ==
  /\ At(p, "recCacheSet")
  /\ Set(p, [turn[p] EXCEPT !.pc = "returned", !.failedAt = "recCacheSet"])
  /\ Fault

\* getFallbackRecommendations: the catalog query
RecFallbackOk(p) ==
  /\ At(p, "recFallback")
  /\ Set(p, [turn[p] EXCEPT !.pc = "returned", !.result = Some("fallback"),
                            !.fellBack = TRUE])
  /\ Frame
\* the query fails with a DatabaseError, which is rethrown
RecFallbackDatabaseError(p) ==
  /\ At(p, "recFallback")
  /\ Set(p, [turn[p] EXCEPT !.pc = "thrown", !.lastError = "DatabaseError",
                            !.failedAt = "recFallback", !.fellBack = TRUE])
  /\ Fault
\* the query fails with another error: the empty list is returned
RecFallbackError(p) ==
  /\ At(p, "recFallback")
  /\ Set(p, [turn[p] EXCEPT !.pc = "returned", !.result = Some("empty"),
                            !.failedAt = "recFallback", !.fellBack = TRUE])
  /\ Fault

\* calls of getRecommendations, with at most MaxFaults failing operations
InitRec ==
  /\ env \in Envs({"recommend"}, {1, 2})
  /\ InitStores
  /\ cacheConv = [u \in Users |-> Absent]
NextRec ==
  \E p \in CallIds :
    \/ \E k \in RequestKeys : getRecommendations(p, k)
    \/ RecCacheGet(p) \/ RecCacheGetFail(p)
    \/ RecFetchOk(p) \/ RecFetchStatus(p) \/ RecFetchError(p) \/ RecFetchTimeout(p)
    \/ RecCacheSet(p) \/ RecCacheSetFail(p)
    \/ RecFallbackOk(p) \/ RecFallbackDatabaseError(p) \/ RecFallbackError(p)
SpecRec == InitRec /\ [][NextRec]_vars

\* C39 (as claimed): no failure of the provider call, a timeout included,
\* and no failure of the cache lookup or write makes getRecommendations
\* raise: it raises only when the fallback query itself fails, and after a
\* provider failure it returns what the fallback gave.
C39_FallbackOnEveryFailure ==
  \A p \in CallIds :
    LET r == turn[p] IN
    r.api = "recommend" =>
      /\ r.pc = "thrown" => r.failedAt = "recFallback"
      /\ (r.pc = "returned" /\ r.lastError # None) => r.fellBack

\* ------------------------------------------------------------------ payment
\* order.items of the calls: one product, a product not in the catalog, more
\* than the stock, two products, and one product named twice
Item(s, q) == [productId |-> s, quantity |-> q]
OrderItems ==
  {<<Item("sku1", 1)>>, <<Item("sku1", MaxStock)>>, <<Item("sku1", MaxStock + 1)>>,
   <<Item("sku9", 1)>>, <<Item("sku1", 1), Item("sku2", MaxStock)>>,
   <<Item("sku1", MaxStock), Item("sku1", 1)>>}

\* confirmPayment(paymentIntentId, order) is called with both ids given
confirmPayment(p, items) ==
  /\ At(p, "idle") /\ "confirm" \in env.apis
  /\ Set(p, [IdleTurn EXCEPT !.api = "confirm", !.items = items, !.pc = "payRetrieve"])
  /\ Frame

\* await this.stripe.paymentIntents.retrieve(id): status 'succeeded'; the
\* transaction begins
PayRetrieveOk(p) ==
  /\ At(p, "payRetrieve")
  /\ Set(p, [turn[p] EXCEPT !.pc = "payCheck"])
  /\ Frame
\* the intent has another status, or Stripe fails: a PaymentError
PayRetrieveFail(p) ==
  /\ At(p, "payRetrieve")
  /\ Set(p, [turn[p] EXCEPT !.pc = "thrown", !.lastError = "PaymentError",
                            !.failedAt = "payRetrieve"])
  /\ Fault

\* SELECT stock FROM catalog WHERE id = item.productId, for the next item:
\* a missing product or a stock below the quantity throws, and the
\* transaction is rolled back
PayCheckItem(p) ==
  /\ At(p, "payCheck")
  /\ LET r == turn[p]
         item == r.items[r.checked + 1] IN
     Set(p, IF item.productId \notin Products
            THEN [r EXCEPT !.pc = "thrown", !.lastError = "PRODUCT_NOT_FOUND",
                           !.failedAt = "payCheck"]
            ELSE IF svc.stock[item.productId] < item.quantity
            THEN [r EXCEPT !.pc = "thrown", !.lastError = "INSUFFICIENT_STOCK",
                           !.failedAt = "payCheck"]
            ELSE [r EXCEPT !.checked = r.checked + 1,
                           !.pc = IF r.checked + 1 = Len(r.items)
                                  THEN "payInsert" ELSE "payCheck"])
  /\ Frame

\* INSERT INTO orders ...: written with the transaction
PayInsert(p) ==
  /\ At(p, "payInsert")
  /\ Set(p, [turn[p] EXCEPT !.pc = "payUpdate"])
  /\ Frame

\* UPDATE catalog SET stock = stock - quantity, item after item
RECURSIVE Decremented(_, _)
Decremented(stock, items) ==
  IF items = << >> THEN stock
  ELSE Decremented([stock EXCEPT ![Head(items).productId] = @ - Head(items).quantity],
                   Tail(items))

\* the updates of the items and the commit: each update subtracts from the
\* stock committed when it runs; then the order is returned as confirmed
PayUpdate(p) ==
  /\ At(p, "payUpdate")
  /\ svc' = [svc EXCEPT !.stock = Decremented(svc.stock, turn[p].items),
                        !.orders = @ \cup {<<p, turn[p].items>>}]
  /\ Set(p, [turn[p] EXCEPT !.pc = "returned", !.result = Some("confirmed")])
  /\ UNCHANGED <<env, clock, cacheConv, cachePrefs, memPrefs, memConv, memPrefLog, faults>>
\* a statement of the transaction fails with a DatabaseError: rolled back
PayTransactionFail(p) ==
  /\ p \in env.calls /\ turn[p].pc \in {"payCheck", "payInsert", "payUpdate"}
  /\ Set(p, [turn[p] EXCEPT !.pc = "thrown", !.lastError = "DatabaseError",
                            !.failedAt = turn[p].pc])
  /\ Fault

\* two calls of confirmPayment side by side, with at most MaxFaults failing
\* operations
InitPay ==
  /\ env \in Envs({"confirm"}, {1, 2})
  /\ InitStores
  /\ cacheConv = [u \in Users |-> Absent]
NextPay ==
  \E p \in CallIds :
    \/ \E items \in OrderItems : confirmPayment(p, items)
    \/ PayRetrieveOk(p) \/ PayRetrieveFail(p)
    \/ PayCheckItem(p) \/ PayInsert(p) \/ PayUpdate(p)
    \/ PayTransactionFail(p)
SpecPay == InitPay /\ [][NextPay]_vars

\* C40 (as claimed): no product of the catalog has a negative stock, and
\* every order inserted took from the stock what its items name.
C40_StockNeverNegative ==
  /\ \A s \in Products : svc.stock[s] >= 0
  /\ \A p \in CallIds :
       (turn[p].api = "confirm" /\ turn[p].pc = "returned") =>
         <<p, turn[p].items>> \in svc.orders

\* ------------------------------------------------------ request orchestrator
\* the number of recorded failures at which a service's breaker is open
BreakerThreshold == 2

\* process(envelope, work, options) is called; k is the cache key and the
\* deduplication key of the request, s the service named in the options
process(p, k, s) ==
  /\ At(p, "idle") /\ "process" \in env.apis
  /\ Set(p, [IdleTurn EXCEPT !.api = "process", !.key = k, !.service = s,
                             !.pc = "orchLookup"])
  /\ Frame

\* steps 1 to 3: a cached result is returned; a request in flight with the
\* same key is attached to; an open breaker fails fast; otherwise the slot
\* is taken and the work is started
OrchLookup(p) ==
  /\ At(p, "orchLookup")
  /\ LET r == turn[p] IN
     IF IsSome(svc.cache[r.key])
     THEN /\ Set(p, [r EXCEPT !.pc = "returned", !.result = svc.cache[r.key]])
          /\ Frame
     ELSE IF svc.inflight[r.key] # 0
     THEN /\ Set(p, [r EXCEPT !.pc = "attached", !.attachedTo = svc.inflight[r.key]])
          /\ Frame
     ELSE IF svc.failures[r.service] >= BreakerThreshold
     THEN /\ Set(p, [r EXCEPT !.pc = "thrown", !.lastError = "ServiceUnavailable",
                              !.failedAt = "orchLookup"])
          /\ Frame
     ELSE /\ Set(p, [r EXCEPT !.pc = "working", !.executed = TRUE])
          /\ svc' = [svc EXCEPT !.inflight[r.key] = p]
          /\ UNCHANGED <<env, clock, cacheConv, cachePrefs, memPrefs, memConv,
                         memPrefLog, faults>>

\* step 4: the work succeeds: the cache is populated, the slot released and
\* the result returned
WorkOk(p) ==
  /\ At(p, "working")
  /\ svc' = [svc EXCEPT !.cache[turn[p].key] = Some(<<turn[p].key, p>>),
                        !.inflight[turn[p].key] = 0]
  /\ Set(p, [turn[p] EXCEPT !.pc = "returned", !.result = Some(<<turn[p].key, p>>)])
  /\ UNCHANGED <<env, clock, cacheConv, cachePrefs, memPrefs, memConv, memPrefLog, faults>>

\* step 5 with the slot kept: the failed request stays registered
WorkFail_KeepSlot(p) ==
  /\ At(p, "working") /\ faults < MaxFaults /\ faults' = faults + 1
  /\ svc' = [svc EXCEPT !.failures[turn[p].service] = @ + 1]
  /\ Set(p, [turn[p] EXCEPT !.pc = "thrown", !.lastError = "work failed",
                            !.failedAt = "working"])
  /\ UNCHANGED <<env, clock, cacheConv, cachePrefs, memPrefs, memConv, memPrefLog>>
\* step 5: the work fails: the slot is released, nothing is cached, the
\* failure is recorded against the service's breaker and the error is
\* propagated
WorkFail(p) ==
  /\ At(p, "working") /\ faults < MaxFaults /\ faults' = faults + 1
  /\ svc' = [svc EXCEPT !.inflight[turn[p].key] = 0,
                        !.failures[turn[p].service] = @ + 1]
  /\ Set(p, [turn[p] EXCEPT !.pc = "thrown", !.lastError = "work failed",
                            !.failedAt = "working"])
  /\ UNCHANGED <<env, clock, cacheConv, cachePrefs, memPrefs, memConv, memPrefLog>>

\* step 2: an attached request gets the outcome of the call it attached to
AttachedSettle(p) ==
  /\ At(p, "attached")
  /\ LET o == turn[turn[p].attachedTo] IN
     /\ o.pc \in {"returned", "thrown"}
     /\ Set(p, [turn[p] EXCEPT !.pc = o.pc, !.result = o.result,
                               !.lastError = o.lastError])
  /\ Frame

\* requests through the orchestrator, the work failing at most MaxFaults times
InitOrch ==
  /\ env \in Envs({"process"}, CallIds)
  /\ InitStores
  /\ cacheConv = [u \in Users |-> Absent]
NextOrch ==
  \E p \in CallIds :
    \/ \E k \in RequestKeys, s \in Services : process(p, k, s)
    \/ OrchLookup(p)
    \/ WorkOk(p) \/ WorkFail(p)
    \/ AttachedSettle(p)
SpecOrch == InitOrch /\ [][NextOrch]_vars

\* the work of p fails in this step
WorkFails(p) == turn[p].pc = "working" /\ turn'[p].pc = "thrown"
\* the work of a request with the key k has failed and none is in flight
FailedBefore(q, k) ==
  /\ \E p \in CallIds \ {q} : turn[p].key = k /\ turn[p].failedAt = "working"
  /\ \A p \in CallIds : turn[p].key = k => turn[p].pc \notin {"working", "returned"}

====
